---- MODULE Spec2Model ----
(***************************************************************************)
(* A model of the conversational form-filling server of rfielding/gochat.  *)
(*                                                                         *)
(* The configuration-driven variant (package main with handleChat taking a *)
(* Configuration) is modelled first: the global chatSessions map, the      *)
(* forms/ directory, the form page handler and the chat handler with its   *)
(* SAY / SET / SAVE line protocol.                                         *)
(*                                                                         *)
(* Text is modelled as sequences of one-character strings, so that         *)
(* strings.TrimSpace, strings.HasPrefix, strings.SplitN and strings.Split  *)
(* are computed the way the Go code computes them.                         *)
(***************************************************************************)
EXTENDS Integers, Sequences, FiniteSets, TLC

(***************************************************************************)
(* Bounds of the model.                                                    *)
(***************************************************************************)
\* at most this many lines in one assistant reply
MaxLines == 3
\* at most this many HTTP requests in one behaviour
MaxRequests == 2

(***************************************************************************)
(* Characters and the string functions of package strings.                 *)
(***************************************************************************)
\* the white space of unicode.IsSpace that occurs in the modelled texts
WhiteSpace == {" ", "\t", "\n", "\r"}

\* byte values, for the order in which encoding/json writes map keys
Ascii ==
  ("\t" :> 9) @@ ("\n" :> 10) @@ ("\r" :> 13) @@ (" " :> 32) @@
  ("1" :> 49) @@ ("2" :> 50) @@
  ("A" :> 65) @@ ("B" :> 66) @@ ("C" :> 67) @@ ("D" :> 68) @@ ("E" :> 69) @@ ("F" :> 70) @@
  ("J" :> 74) @@ ("L" :> 76) @@ ("N" :> 78) @@ ("S" :> 83) @@ ("T" :> 84) @@
  ("V" :> 86) @@ ("Y" :> 89) @@
  ("a" :> 97) @@ ("c" :> 99) @@ ("e" :> 101) @@ ("h" :> 104) @@ ("i" :> 105) @@
  ("k" :> 107) @@ ("m" :> 109) @@ ("n" :> 110) @@ ("o" :> 111) @@
  ("r" :> 114) @@ ("s" :> 115) @@ ("t" :> 116) @@ ("w" :> 119) @@ ("y" :> 121)

RECURSIVE TrimLeft(_)
TrimLeft(s) ==
  IF s # <<>> /\ Head(s) \in WhiteSpace THEN TrimLeft(Tail(s)) ELSE s

RECURSIVE TrimRight(_)
TrimRight(s) ==
  IF s # <<>> /\ s[Len(s)] \in WhiteSpace
  THEN TrimRight(SubSeq(s, 1, Len(s) - 1))
  ELSE s

\* strings.TrimSpace
TrimSpace(s) == TrimRight(TrimLeft(s))

\* strings.HasPrefix
HasPrefix(s, prefix) ==
  Len(s) >= Len(prefix) /\ SubSeq(s, 1, Len(prefix)) = prefix

\* strings.TrimPrefix
TrimPrefix(s, prefix) ==
  IF HasPrefix(s, prefix) THEN SubSeq(s, Len(prefix) + 1, Len(s)) ELSE s

\* strings.Index for a one-character separator; 0 when absent
RECURSIVE IndexFrom(_, _, _)
IndexFrom(s, sep, i) ==
  IF i > Len(s) THEN 0
  ELSE IF s[i] = sep THEN i
  ELSE IndexFrom(s, sep, i + 1)

\* strings.Split(s, sep) for a one-character separator
RECURSIVE Split(_, _)
Split(s, sep) ==
  LET i == IndexFrom(s, sep, 1) IN
  IF i = 0 THEN <<s>>
  ELSE <<SubSeq(s, 1, i - 1)>> \o Split(SubSeq(s, i + 1, Len(s)), sep)

\* strings.SplitN(s, sep, 2) for a one-character separator
SplitN2(s, sep) ==
  LET i == IndexFrom(s, sep, 1) IN
  IF i = 0 THEN <<s>>
  ELSE <<SubSeq(s, 1, i - 1), SubSeq(s, i + 1, Len(s))>>

\* strings.Join(lines, sep)
RECURSIVE Join(_, _)
Join(lines, sep) ==
  IF lines = <<>> THEN <<>>
  ELSE IF Len(lines) = 1 THEN lines[1]
  ELSE lines[1] \o <<sep>> \o Join(Tail(lines), sep)

\* byte-wise order of Go strings
RECURSIVE StrLess(_, _)
StrLess(a, b) ==
  IF b = <<>> THEN FALSE
  ELSE IF a = <<>> THEN TRUE
  ELSE IF Head(a) = Head(b) THEN StrLess(Tail(a), Tail(b))
  ELSE Ascii[Head(a)] < Ascii[Head(b)]

(***************************************************************************)
(* Go maps of type map[string]string.                                      *)
(***************************************************************************)
EmptyMap == [k \in {} |-> <<>>]

\* m[k] = v
Put(m, k, v) == [x \in DOMAIN m \cup {k} |-> IF x = k THEN v ELSE m[x]]

\* m[k]: the zero value "" when k is absent
Get(m, k) == IF k \in DOMAIN m THEN m[k] ELSE <<>>

(***************************************************************************)
(* encoding/json on a map[string]string.  The JSON text of an object is    *)
(* modelled by its member list in the order written (json.Marshal sorts    *)
(* the keys of a map) and by whether the text is complete.                 *)
(***************************************************************************)
\* the least key of a non-empty set of strings
MinKey(S) == CHOOSE k \in S : \A x \in S \ {k} : StrLess(k, x)

RECURSIVE Members(_, _)
Members(m, keys) ==
  IF keys = {} THEN <<>>
  ELSE LET k == MinKey(keys) IN <<<<k, m[k]>>>> \o Members(m, keys \ {k})

\* json.MarshalIndent(m, "", "    ")
MarshalIndent(m) == [members |-> Members(m, DOMAIN m), complete |-> TRUE]

\* what a write that failed after the file was truncated leaves behind
Truncated == [members |-> <<>>, complete |-> FALSE]

RECURSIVE Decode(_, _)
Decode(members, into) ==
  IF members = <<>> THEN into
  ELSE Decode(Tail(members), Put(into, Head(members)[1], Head(members)[2]))

\* json.Unmarshal(data, &into): invalid JSON is an error and leaves into as is
Unmarshal(data, into) ==
  IF data.complete THEN Decode(data.members, into) ELSE into

(***************************************************************************)
(* parseFormFields: the field lines of a form, "Label: {{.Name}} (like     *)
(* example)", one to a line.                                               *)
(***************************************************************************)
\* the characters that \w of package regexp matches
WordChars ==
  { "A", "B", "C", "D", "E", "F", "G", "H", "I", "J", "K", "L", "M", "N",
    "O", "P", "Q", "R", "S", "T", "U", "V", "W", "X", "Y", "Z", "a", "b",
    "c", "d", "e", "f", "g", "h", "i", "j", "k", "l", "m", "n", "o", "p",
    "q", "r", "s", "t", "u", "v", "w", "x", "y", "z", "0", "1", "2", "3",
    "4", "5", "6", "7", "8", "9", "_" }

\* strings.Index(s, sub); 0 when sub is not in s
RECURSIVE IndexOf(_, _, _)
IndexOf(s, sub, i) ==
  IF i + Len(sub) - 1 > Len(s) THEN 0
  ELSE IF SubSeq(s, i, i + Len(sub) - 1) = sub THEN i
  ELSE IndexOf(s, sub, i + 1)

Index(s, sub) == IndexOf(s, sub, 1)

\* the length of the longest run of word characters of s that starts at i
RECURSIVE WordRun(_, _)
WordRun(s, i) ==
  IF i <= Len(s) /\ s[i] \in WordChars THEN 1 + WordRun(s, i + 1) ELSE 0

\* regexp.MustCompile(`{{\.(\w+)}}`).FindStringSubmatch(s), searching from i:
\* the leftmost match and its group, <<>> when there is no match
RECURSIVE FindStringSubmatchFrom(_, _)
FindStringSubmatchFrom(s, i) ==
  IF i + 5 > Len(s) THEN <<>>
  ELSE LET n == WordRun(s, i + 3) IN
       IF /\ SubSeq(s, i, i + 2) = <<"{", "{", ".">>
          /\ n >= 1
          /\ i + 4 + n <= Len(s)
          /\ SubSeq(s, i + 3 + n, i + 4 + n) = <<"}", "}">>
       THEN <<SubSeq(s, i, i + 4 + n), SubSeq(s, i + 3, i + 2 + n)>>
       ELSE FindStringSubmatchFrom(s, i + 1)

FindStringSubmatch(s) == FindStringSubmatchFrom(s, 1)

\* strings.Trim(s, cutset) for a cutset of one character
RECURSIVE Trim(_, _)
Trim(s, c) ==
  IF s # <<>> /\ Head(s) = c THEN Trim(Tail(s), c)
  ELSE IF s # <<>> /\ s[Len(s)] = c THEN Trim(SubSeq(s, 1, Len(s) - 1), c)
  ELSE s

\* the example of a field line: what follows "(like ", without the brackets
\* at its ends
Example(s) ==
  LET idx == Index(s, <<"(", "l", "i", "k", "e", " ">>) IN
  IF idx # 0 THEN Trim(SubSeq(s, idx + 6, Len(s)), ")") ELSE <<>>

\* one pass of the loop of parseFormFields: the fields that a line appends
FieldOfLine(rawLine) ==
  LET line == TrimSpace(rawLine)
      parts == Split(line, ":")
  IN IF line = <<>> THEN <<>>
     ELSE IF Len(parts) # 2 THEN <<>>
     ELSE IF Len(FindStringSubmatch(parts[2])) < 2 THEN <<>>
     ELSE << [Label |-> TrimSpace(parts[1]),
              Name |-> FindStringSubmatch(parts[2])[2],
              Example |-> Example(parts[2])] >>

RECURSIVE FieldsOfLines(_)
FieldsOfLines(lines) ==
  IF lines = <<>> THEN <<>>
  ELSE FieldOfLine(Head(lines)) \o FieldsOfLines(Tail(lines))

\* the loop ends at the first line that it does not accept
RECURSIVE FieldsUntilBadLine(_)
FieldsUntilBadLine(lines) ==
  IF lines = <<>> \/ FieldOfLine(Head(lines)) = <<>> THEN <<>>
  ELSE FieldOfLine(Head(lines)) \o FieldsUntilBadLine(Tail(lines))

parseFormFields_StopAtBadLine(fieldsStr) ==
  FieldsUntilBadLine(Split(fieldsStr, "\n"))

\* parseFormFields(fieldsStr)
parseFormFields(fieldsStr) == FieldsOfLines(Split(fieldsStr, "\n"))

(***************************************************************************)
(* configuration.xml                                                       *)
(***************************************************************************)
FormNames == {"registration", "visit"}

License == <<"L", "i", "c", "e", "n", "s", "e">>
VisitDate == <<"V", "i", "s", "i", "t", "D", "a", "t", "e">>
FirstName == <<"F", "i", "r", "s", "t", "N", "a", "m", "e">>

\* <primary_key> of each form
PrimaryKey(formName) ==
  IF formName = "registration" THEN <<License>> ELSE <<License, VisitDate>>

\* <context_form> of each form
ContextForm(formName) == "registration"

\* the global <system_prompt>, abbreviated to its first word
SystemPrompt == <<"Y", "o", "u">>

\* <form_fields> of each form, abbreviated to the names of its key fields
Fields(formName) ==
  IF formName = "registration" THEN License
  ELSE License \o <<"\n">> \o VisitDate

\* lines of <form_fields> of the registration form: its first two, its
\* sixth and its last
RegistrationFieldLines ==
  <<<<"D", "r", "i", "v", "e", "r", "s", " ", "L", "i", "c", "e", "n", "s",
      "e", ":", " ", "{", "{", ".", "L", "i", "c", "e", "n", "s", "e", "}",
      "}", " ", "(", "l", "i", "k", "e", " ", "5", "5", "5", "-", "5", "5",
      "-", "5", "5", "5", "5", ")">>,
     <<"F", "i", "r", "s", "t", "N", "a", "m", "e", ":", " ", "{", "{", ".",
      "F", "i", "r", "s", "t", "N", "a", "m", "e", "}", "}", " ", "(", "l",
      "i", "k", "e", " ", "J", "o", "h", "n", ")">>,
     <<"C", "i", "t", "y", ":", " ", "{", "{", ".", "C", "i", "t", "y", "}",
      "}">>,
     <<"P", "h", "o", "n", "e", " ", "N", "u", "m", "b", "e", "r", ":", " ",
      "{", "{", ".", "P", "h", "o", "n", "e", "}", "}", " ", "(", "l", "i",
      "k", "e", ":", " ", "(", "3", "3", "3", ")", "3", "3", "3", "-", "3",
      "3", "4", "4", ")">> >>

\* lines of <form_fields> of the visit form: its first two
VisitFieldLines ==
  <<<<"L", "i", "c", "e", "n", "s", "e", " ", "N", "u", "m", "b", "e", "r",
      ":", " ", "{", "{", ".", "L", "i", "c", "e", "n", "s", "e", "}", "}",
      " ", "(", "l", "i", "k", "e", " ", "A", "B", "C", "1", "2", "3", ")">>,
     <<"V", "i", "s", "i", "t", " ", "D", "a", "t", "e", ":", " ", "{", "{",
      ".", "V", "i", "s", "i", "t", "D", "a", "t", "e", "}", "}", " ", "(",
      "l", "i", "k", "e", " ", "2", "0", "2", "4", "-", "0", "3", "-", "2",
      "1", ")">> >>

\* <form_fields> of each form as the program reads it, for parseFormFields
FormFields(formName) ==
  IF formName = "registration" THEN Join(RegistrationFieldLines, "\n")
  ELSE Join(VisitFieldLines, "\n")

\* the form of the last <form> element
LastForm == "visit"

\* <system_prompt> of each form: the three %s verbs, without the fixed text
Prompt(formName) == <<"%", "s", "\n", "%", "s", "\n", "%", "s">>

\* fmt.Sprintf for a format whose only verbs are %s
RECURSIVE Sprintf(_, _)
Sprintf(format, args) ==
  IF format = <<>> THEN <<>>
  ELSE IF HasPrefix(format, <<"%", "s">>) /\ args # <<>>
  THEN Head(args) \o Sprintf(SubSeq(format, 3, Len(format)), Tail(args))
  ELSE <<Head(format)>> \o Sprintf(Tail(format), args)

(***************************************************************************)
(* The inputs of the model: what clients send and what the model answers.  *)
(***************************************************************************)
SET_ == <<"S", "E", "T", " ">>
SAY_ == <<"S", "A", "Y", " ">>
SAVE == <<"S", "A", "V", "E">>

\* the lines an assistant reply is made of
LinePool ==
  { SET_ \o License \o <<" ", "A">>,
    SET_ \o VisitDate \o <<" ", "1">>,
    SET_ \o VisitDate \o <<" ", "2">>,
    SAY_ \o <<"h", "i">>,
    SAVE }

\* the assistant replies: up to MaxLines lines joined by newlines
Contents ==
  { Join(ls, "\n") : ls \in UNION { [1..n -> LinePool] : n \in 0..MaxLines } }

\* another field of the registration form
City == <<"C", "i", "t", "y">>

\* lines for the study of the loop over the lines of a reply: the three
\* commands, white space around them, and lines that are no command
ParserLines ==
  { SAY_ \o <<"h", "i">>,
    SAY_ \o <<"y", "o">>,
    SET_ \o License \o <<" ", "A">>,
    SET_ \o License \o <<" ", "B">>,
    SET_ \o City \o <<" ", "N", " ", "Y">>,
    SAVE,
    <<" ">> \o SAVE \o <<"\r">>,
    <<>>,
    <<"o", "k">>,
    SET_ \o License,
    SET_ \o <<" ">> \o License,
    SET_ \o <<" ">> \o City \o <<" ", " ", "N", "Y">>,
    SAVE \o <<" ", "n", "o", "w">>,
    SAVE \o <<"D">>,
    <<"s", "a", "v", "e">> }

\* the replies made of up to MaxLines of these lines
ParserContents ==
  { Join(ls, "\n") : ls \in UNION { [1..n -> ParserLines] : n \in 0..MaxLines } }

\* how one call of the chat completions API goes: the API key is not set,
\* the transport fails, the body is not JSON, the answer is a non-2xx status
\* with a JSON error body, the answer is a completion without choices, or
\* the answer is a completion with one choice
LLMOutcomes ==
  { [kind |-> k, content |-> <<>>] :
      k \in {"nokey", "transport", "malformed", "status", "nochoice"} }
    \cup { [kind |-> "ok", content |-> c] : c \in Contents }

\* callChatGPT: the error it returns and the Choices of the decoded response.
\* The status code is not looked at, so the body of a non-2xx answer is
\* decoded like any other and gives a response without choices.
callChatGPT(outcome) ==
  IF outcome.kind \in {"nokey", "transport", "malformed"}
  THEN [kind |-> outcome.kind, err |-> TRUE, Choices |-> <<>>]
  ELSE IF outcome.kind \in {"status", "nochoice"}
  THEN [kind |-> outcome.kind, err |-> FALSE, Choices |-> <<>>]
  ELSE [kind |-> outcome.kind, err |-> FALSE, Choices |-> <<outcome.content>>]

\* what callChatGPT returns
ChatResponses == { callChatGPT(outcome) : outcome \in LLMOutcomes }

\* the bodies of chat requests
ChatRequests ==
  { [Message |-> <<"s", "t", "a", "r", "t">>, AutoSave |-> FALSE],
    [Message |-> SET_ \o FirstName \o <<" ", "J">>, AutoSave |-> TRUE] }

\* how os.MkdirAll and os.WriteFile of one save end
IOOutcomes == {"ok", "mkdir", "open", "partial"}

\* the License query parameter of a form page request ("" when absent)
LicenseQueries == { <<>>, <<"A">>, <<"B">> }

(***************************************************************************)
(* State.                                                                  *)
(***************************************************************************)
VARIABLES
  chatSessions,  \* the global map: form name -> session, as far as created
  files,         \* the files under forms/: name -> JSON text
  cookies,       \* the client's cookie jar: name -> value
  request,       \* the last request served
  aiMessage,     \* what callChatGPT returned for it, as the log shows it
  saving,        \* the save of the last request: shouldSave, filename, written
  response,      \* the HTTP response to the last request
  served,        \* the number of requests served
  config,        \* the configuration loaded by main: form name -> form_fields
  inflight,      \* the chat requests being handled: client -> locals
  conversations, \* src/main.go: the global map, form type -> conversation
  turn           \* src/main.go: the last chat request served, as observed

vars ==
  <<chatSessions, files, cookies, request, aiMessage, saving, response, served,
    config, inflight, conversations, turn>>

(***************************************************************************)
(* Values of the bookkeeping variables.                                    *)
(***************************************************************************)
NoFile == <<>>

NoRequest ==
  [handler |-> "none", formName |-> "", Message |-> <<>>, AutoSave |-> FALSE,
   License |-> <<>>, client |-> ""]

NoCall == [called |-> FALSE, kind |-> "none", err |-> FALSE, Choices |-> <<>>]

NoSave == [shouldSave |-> FALSE, filename |-> NoFile, written |-> FALSE]

\* a response of which nothing has been written: net/http sends 200, no body
NoResponse ==
  [status |-> 200, kind |-> "none", text |-> "", keys |-> {},
   message |-> <<>>, updates |-> EmptyMap, Fields |-> <<>>,
   InitialData |-> EmptyMap, setCookie |-> EmptyMap]

\* http.Error(w, text, status)
HttpError(text, status) ==
  [NoResponse EXCEPT !.status = status, !.kind = "text", !.text = text]

\* json.NewEncoder(w).Encode(map[string]interface{}{"message": ..., "updates": ...})
ChatReply(responseText, formUpdates) ==
  [NoResponse EXCEPT !.kind = "json", !.keys = {"message", "updates"},
                     !.message = responseText, !.updates = formUpdates]

\* json.NewEncoder(w).Encode(map[string]interface{}{"updates": ...})
AutoSaveReply(field, value) ==
  [NoResponse EXCEPT !.kind = "json", !.keys = {"updates"},
                     !.updates = Put(EmptyMap, field, value)]

\* tmpl.Execute(w, data) of the form page
PageReply(fields, initialData) ==
  [NoResponse EXCEPT !.kind = "html", !.Fields = fields,
                     !.InitialData = initialData]

\* the browser keeps the cookies a response sets
StoreCookies(jar, resp) ==
  [k \in DOMAIN jar \cup DOMAIN resp.setCookie |->
     IF k \in DOMAIN resp.setCookie THEN resp.setCookie[k] ELSE jar[k]]

\* src/main.go: no conversation has been started
NoConversations == [formType \in {} |-> <<>>]

\* src/main.go: no chat request has been served
NoTurn ==
  [formType |-> "", Message |-> <<>>, status |-> 0, sent |-> <<>>,
   err |-> FALSE, reply |-> <<>>, complete |-> FALSE, saveErr |-> "none",
   response |-> <<>>]

(***************************************************************************)
(* The file system under forms/.                                           *)
(***************************************************************************)
\* fmt.Sprintf("forms/registration-%s.json", license): the fixed parts and
\* the argument, in order
Filename(license) == <<"forms/registration-", license, ".json">>

\* os.WriteFile(filename, data, 0644), ending the way io says
WriteFile(fs, filename, data, io) ==
  IF io = "ok" THEN Put(fs, filename, data)
  ELSE IF io = "partial" THEN Put(fs, filename, Truncated)
  ELSE fs

\* the load does not look whether the License parameter is there
LoadInitialData_NoKeyCheck(fs, license) ==
  IF Filename(license) \in DOMAIN fs
  THEN Unmarshal(fs[Filename(license)], EmptyMap)
  ELSE EmptyMap

\* the load looks for a file named after the form of the page
LoadInitialData_OtherName(fs, license) ==
  IF license # <<>> /\ <<"forms/visit-", license, ".json">> \in DOMAIN fs
  THEN Unmarshal(fs[<<"forms/visit-", license, ".json">>], EmptyMap)
  ELSE EmptyMap

\* the form page handler's load: os.ReadFile and json.Unmarshal, whose errors
\* leave initialData empty
LoadInitialData(fs, license) ==
  IF license # <<>> /\ Filename(license) \in DOMAIN fs
  THEN Unmarshal(fs[Filename(license)], EmptyMap)
  ELSE EmptyMap

(***************************************************************************)
(* handleChat: the session and the command lines of a reply.               *)
(***************************************************************************)
\* the session created on the first chat request of a form
NewSession(formName) ==
  [Messages |->
     << [Role |-> "system",
         Content |-> Sprintf(Prompt(formName),
                             <<SystemPrompt, Fields(formName), <<>> >>)] >>,
   FormData |-> EmptyMap]

\* chatSessions[formName], created when nil
GetSession(formName) ==
  IF formName \in DOMAIN chatSessions
  THEN chatSessions[formName]
  ELSE NewSession(formName)

\* the user message is not recorded
AddUserMessage_NotRecorded(session, message) == session

\* session.Messages = append(session.Messages, ChatMessage{"user", message})
AddUserMessage(session, message) ==
  [session EXCEPT !.Messages = Append(@, [Role |-> "user", Content |-> message])]

\* one line of the reply as the switch of the loop reads it: the case taken
\* and the strings it takes from the line
Ignored == [case |-> "none", field |-> <<>>, value |-> <<>>]

\* the line is split at every space, and the value is the second part
SetCase_SplitAll(line) ==
  LET parts == Split(TrimPrefix(line, SET_), " ") IN
  IF Len(parts) >= 2
  THEN [case |-> "SET", field |-> TrimSpace(parts[1]),
        value |-> TrimSpace(parts[2])]
  ELSE Ignored

SetCase(line) ==
  LET parts == SplitN2(TrimPrefix(line, SET_), " ") IN
  IF Len(parts) = 2
  THEN [case |-> "SET", field |-> TrimSpace(parts[1]),
        value |-> TrimSpace(parts[2])]
  ELSE Ignored

SayCase(line) ==
  [case |-> "SAY", field |-> <<>>,
   value |-> TrimSpace(TrimPrefix(line, SAY_))]

SaveCase(line) == [case |-> "SAVE", field |-> <<>>, value |-> <<>>]

\* every line that starts with SAVE counts as SAVE
Command_SavePrefix(rawLine) ==
  LET line == TrimSpace(rawLine) IN
  IF line = <<>> THEN Ignored
  ELSE IF HasPrefix(line, SET_) THEN SetCase(line)
  ELSE IF HasPrefix(line, SAY_) THEN SayCase(line)
  ELSE IF HasPrefix(line, SAVE) THEN SaveCase(line)
  ELSE Ignored

Command(rawLine) ==
  LET line == TrimSpace(rawLine) IN
  IF line = <<>> THEN Ignored
  ELSE IF HasPrefix(line, SET_) THEN SetCase(line)
  ELSE IF HasPrefix(line, SAY_) THEN SayCase(line)
  ELSE IF line = SAVE THEN SaveCase(line)
  ELSE Ignored

\* the cases of the lines of strings.Split(content, "\n"), in line order
Commands(content) ==
  LET lines == Split(content, "\n") IN
  [i \in 1..Len(lines) |-> Command(lines[i])]

\* Commands, tabulated for the replies of the model
CommandTable ==
  [content \in Contents \cup ParserContents |-> Commands(content)]

\* the locals of the loop over the lines, with the session's FormData
StartTurn(session) ==
  [responseText |-> <<>>, formUpdates |-> EmptyMap, shouldSave |-> FALSE,
   FormData |-> session.FormData]

\* SAVE counts only after a SAY line
Execute_SaveNeedsSay(command, t) ==
  IF command.case = "SET"
  THEN [t EXCEPT !.formUpdates = Put(@, command.field, command.value),
                 !.FormData = Put(@, command.field, command.value)]
  ELSE IF command.case = "SAY"
  THEN [t EXCEPT !.responseText = IF @ = <<>> THEN command.value ELSE @]
  ELSE IF command.case = "SAVE"
  THEN [t EXCEPT !.shouldSave = (t.responseText # <<>>)]
  ELSE t

\* a field keeps the value of its first SET line of the turn
Execute_FirstSetWins(command, t) ==
  IF command.case = "SET"
  THEN IF command.field \in DOMAIN t.formUpdates THEN t
       ELSE [t EXCEPT !.formUpdates = Put(@, command.field, command.value),
                      !.FormData = Put(@, command.field, command.value)]
  ELSE IF command.case = "SAY"
  THEN [t EXCEPT !.responseText = IF @ = <<>> THEN command.value ELSE @]
  ELSE IF command.case = "SAVE"
  THEN [t EXCEPT !.shouldSave = TRUE]
  ELSE t

\* every SAY line replaces the text of the one before
Execute_LastSay(command, t) ==
  IF command.case = "SET"
  THEN [t EXCEPT !.formUpdates = Put(@, command.field, command.value),
                 !.FormData = Put(@, command.field, command.value)]
  ELSE IF command.case = "SAY"
  THEN [t EXCEPT !.responseText = command.value]
  ELSE IF command.case = "SAVE"
  THEN [t EXCEPT !.shouldSave = TRUE]
  ELSE t

\* the assignments of the case taken for one line
Execute(command, t) ==
  IF command.case = "SET"
  THEN [t EXCEPT !.formUpdates = Put(@, command.field, command.value),
                 !.FormData = Put(@, command.field, command.value)]
  ELSE IF command.case = "SAY"
  THEN [t EXCEPT !.responseText = IF @ = <<>> THEN command.value ELSE @]
  ELSE IF command.case = "SAVE"
  THEN [t EXCEPT !.shouldSave = TRUE]
  ELSE t

RECURSIVE ExecuteAll(_, _)
ExecuteAll(commands, t) ==
  IF commands = <<>> THEN t
  ELSE ExecuteAll(Tail(commands), Execute(Head(commands), t))

\* the whole loop over the lines of aiMessage.Content
ParseCommands(content, session) ==
  ExecuteAll(CommandTable[content], StartTurn(session))

\* only the fields changed in this turn are written
FormJSON_OnlyUpdates(t) == MarshalIndent(t.formUpdates)

\* the JSON text that a save writes
FormJSON(t) == MarshalIndent(t.FormData)

\* the file that a save writes
SaveFilename(formName, formData) == Filename(Get(formData, License))

(***************************************************************************)
(* The handlers.                                                           *)
(***************************************************************************)
\* the configuration as configuration.xml has it
ShippedConfig == [formName \in FormNames |-> FormFields(formName)]

\* no request is being handled
NoneInFlight == [client \in {} |-> NoRequest]

\* the forms whose fields the page handler of a form can see: the handler
\* reads the variable of the loop over the forms, which is one variable for
\* the whole loop before Go 1.22 and holds the last form when a request
\* comes, and is a variable of each pass from Go 1.22 on
PageForms(formName) == {formName, LastForm}

Init ==
  /\ chatSessions = [f \in {} |-> NewSession(f)]
  /\ files = [n \in {} |-> Truncated]
  /\ cookies = EmptyMap
  /\ request = NoRequest
  /\ aiMessage = NoCall
  /\ saving = NoSave
  /\ response = NoResponse
  /\ served = 0
  /\ config = ShippedConfig
  /\ inflight = NoneInFlight
  /\ conversations = NoConversations
  /\ turn = NoTurn

\* the request is an auto-save that handleChat handles without the model
IsAutoSave(chatReq) ==
  /\ chatReq.AutoSave
  /\ HasPrefix(chatReq.Message, SET_)
  /\ Len(SplitN2(TrimPrefix(chatReq.Message, SET_), " ")) = 2

\* the errors of os.MkdirAll and os.WriteFile are dropped
SaveOutcome_ErrorsDropped(t, filename, io) ==
  ChatReply(t.responseText, t.formUpdates)

\* the response after the save of a chat turn
SaveOutcome(t, filename, io) ==
  IF io = "mkdir"
  THEN HttpError("Failed to create forms directory", 500)
  ELSE IF io = "ok"
  THEN ChatReply(t.responseText, t.formUpdates)
  ELSE HttpError("Failed to save form", 500)

\* the chat endpoint rejects the request before the session is looked up:
\* the method is not POST (405), or the body is not JSON (400)
rejectChat(formName, status) ==
  /\ served < MaxRequests
  /\ request' = [NoRequest EXCEPT !.handler = "chat", !.formName = formName]
  /\ response' = IF status = 405
                 THEN HttpError("Method not allowed", 405)
                 ELSE HttpError("Bad request", 400)
  /\ cookies' = StoreCookies(cookies, response')
  /\ aiMessage' = NoCall
  /\ saving' = NoSave
  /\ served' = served + 1
  /\ UNCHANGED <<chatSessions, files, config, inflight,
                 conversations, turn>>

\* the user message is appended before the auto-save is looked at
handleAutoSave_Recorded(formName, chatReq, io) ==
  /\ served < MaxRequests
  /\ IsAutoSave(chatReq)
  /\ LET session == AddUserMessage(GetSession(formName), chatReq.Message)
         parts == SplitN2(TrimPrefix(chatReq.Message, SET_), " ")
         field == TrimSpace(parts[1])
         value == TrimSpace(parts[2])
         formData == Put(session.FormData, field, value)
         filename == SaveFilename(formName, formData)
     IN /\ chatSessions' =
             Put(chatSessions, formName, [session EXCEPT !.FormData = formData])
        \* the errors of os.MkdirAll and os.WriteFile are dropped
        /\ files' = WriteFile(files, filename, MarshalIndent(formData),
                              IF io = "mkdir" THEN "open" ELSE io)
        /\ saving' = [shouldSave |-> TRUE, filename |-> filename,
                      written |-> io = "ok"]
        /\ response' = AutoSaveReply(field, value)
  /\ request' = [NoRequest EXCEPT !.handler = "chat", !.formName = formName,
                                  !.Message = chatReq.Message,
                                  !.AutoSave = chatReq.AutoSave]
  /\ cookies' = StoreCookies(cookies, response')
  /\ aiMessage' = NoCall
  /\ served' = served + 1
  /\ UNCHANGED <<config, inflight,
                 conversations, turn>>

\* handleChat on an auto-save request: SET one field and save at once
handleAutoSave(formName, chatReq, io) ==
  /\ served < MaxRequests
  /\ IsAutoSave(chatReq)
  /\ LET session == GetSession(formName)
         parts == SplitN2(TrimPrefix(chatReq.Message, SET_), " ")
         field == TrimSpace(parts[1])
         value == TrimSpace(parts[2])
         formData == Put(session.FormData, field, value)
         filename == SaveFilename(formName, formData)
     IN /\ chatSessions' =
             Put(chatSessions, formName, [session EXCEPT !.FormData = formData])
        \* the errors of os.MkdirAll and os.WriteFile are dropped
        /\ files' = WriteFile(files, filename, MarshalIndent(formData),
                              IF io = "mkdir" THEN "open" ELSE io)
        /\ saving' = [shouldSave |-> TRUE, filename |-> filename,
                      written |-> io = "ok"]
        /\ response' = AutoSaveReply(field, value)
  /\ request' = [NoRequest EXCEPT !.handler = "chat", !.formName = formName,
                                  !.Message = chatReq.Message,
                                  !.AutoSave = chatReq.AutoSave]
  /\ cookies' = StoreCookies(cookies, response')
  /\ aiMessage' = NoCall
  /\ served' = served + 1
  /\ UNCHANGED <<config, inflight,
                 conversations, turn>>

\* a request with autoSave set returns after the auto-save branch, whether
\* the branch was taken or not
handleChat_FlaggedReturns(formName, chatReq, chatResp) ==
  /\ served < MaxRequests
  /\ ~IsAutoSave(chatReq)
  /\ LET session == IF chatReq.AutoSave
                    THEN GetSession(formName)
                    ELSE AddUserMessage(GetSession(formName), chatReq.Message)
     IN IF chatReq.AutoSave
        THEN /\ chatSessions' = Put(chatSessions, formName, session)
             /\ response' = NoResponse
             /\ saving' = NoSave
             /\ UNCHANGED files
        ELSE IF chatResp.err
        THEN \* callChatGPT failed
             /\ chatSessions' = Put(chatSessions, formName, session)
             /\ response' = HttpError("AI service error", 500)
             /\ saving' = NoSave
             /\ UNCHANGED files
        ELSE IF Len(chatResp.Choices) > 0
        THEN LET t == ParseCommands(chatResp.Choices[1], session)
                 filename == SaveFilename(formName, t.FormData)
             IN /\ chatSessions' =
                     Put(chatSessions, formName,
                         [session EXCEPT !.FormData = t.FormData])
                /\ IF t.shouldSave
                   THEN \E io \in IOOutcomes :
                        /\ files' = WriteFile(files, filename, FormJSON(t), io)
                        /\ response' = SaveOutcome(t, filename, io)
                        /\ saving' = [shouldSave |-> TRUE,
                                      filename |-> filename,
                                      written |-> io = "ok"]
                   ELSE /\ response' = ChatReply(t.responseText, t.formUpdates)
                        /\ saving' = NoSave
                        /\ UNCHANGED files
        ELSE \* no choice in the response: nothing is written to w
             /\ chatSessions' = Put(chatSessions, formName, session)
             /\ response' = NoResponse
             /\ saving' = NoSave
             /\ UNCHANGED files
  /\ request' = [NoRequest EXCEPT !.handler = "chat", !.formName = formName,
                                  !.Message = chatReq.Message,
                                  !.AutoSave = chatReq.AutoSave]
  /\ cookies' = StoreCookies(cookies, response')
  /\ aiMessage' = IF chatReq.AutoSave THEN NoCall
                  ELSE [called |-> TRUE, kind |-> chatResp.kind,
                        err |-> chatResp.err, Choices |-> chatResp.Choices]
  /\ served' = served + 1
  /\ UNCHANGED <<config, inflight,
                 conversations, turn>>

\* handleChat on any other request: one turn of the conversation
handleChat(formName, chatReq, chatResp) ==
  /\ served < MaxRequests
  /\ ~IsAutoSave(chatReq)
  /\ LET session == AddUserMessage(GetSession(formName), chatReq.Message)
     IN IF chatResp.err
        THEN \* callChatGPT failed
             /\ chatSessions' = Put(chatSessions, formName, session)
             /\ response' = HttpError("AI service error", 500)
             /\ saving' = NoSave
             /\ UNCHANGED files
        ELSE IF Len(chatResp.Choices) > 0
        THEN LET t == ParseCommands(chatResp.Choices[1], session)
                 filename == SaveFilename(formName, t.FormData)
             IN /\ chatSessions' =
                     Put(chatSessions, formName,
                         [session EXCEPT !.FormData = t.FormData])
                /\ IF t.shouldSave
                   THEN \E io \in IOOutcomes :
                        /\ files' = WriteFile(files, filename, FormJSON(t), io)
                        /\ response' = SaveOutcome(t, filename, io)
                        /\ saving' = [shouldSave |-> TRUE,
                                      filename |-> filename,
                                      written |-> io = "ok"]
                   ELSE /\ response' = ChatReply(t.responseText, t.formUpdates)
                        /\ saving' = NoSave
                        /\ UNCHANGED files
        ELSE \* no choice in the response: nothing is written to w
             /\ chatSessions' = Put(chatSessions, formName, session)
             /\ response' = NoResponse
             /\ saving' = NoSave
             /\ UNCHANGED files
  /\ request' = [NoRequest EXCEPT !.handler = "chat", !.formName = formName,
                                  !.Message = chatReq.Message,
                                  !.AutoSave = chatReq.AutoSave]
  /\ cookies' = StoreCookies(cookies, response')
  /\ aiMessage' = [called |-> TRUE, kind |-> chatResp.kind,
                   err |-> chatResp.err, Choices |-> chatResp.Choices]
  /\ served' = served + 1
  /\ UNCHANGED <<config, inflight,
                 conversations, turn>>

\* the form page handler: GET /form/<formName>?License=<license>
formPage(formName, license) ==
  /\ served < MaxRequests
  /\ request' = [NoRequest EXCEPT !.handler = "page", !.formName = formName,
                                  !.License = license]
  /\ \E form \in PageForms(formName) :
       response' = PageReply(parseFormFields(config[form]),
                             LoadInitialData(files, license))
  /\ cookies' = StoreCookies(cookies, response')
  /\ aiMessage' = NoCall
  /\ saving' = NoSave
  /\ served' = served + 1
  /\ UNCHANGED <<chatSessions, files, config, inflight,
                 conversations, turn>>

Next ==
  \/ \E formName \in FormNames, status \in {400, 405} :
       rejectChat(formName, status)
  \/ \E formName \in FormNames, chatReq \in ChatRequests, io \in IOOutcomes :
       handleAutoSave(formName, chatReq, io)
  \/ \E formName \in FormNames, chatReq \in ChatRequests,
        chatResp \in ChatResponses :
       handleChat(formName, chatReq, chatResp)
  \/ \E formName \in FormNames, license \in LicenseQueries :
       formPage(formName, license)

Spec == Init /\ [][Next]_vars

\* appendMessage of the chat page: the chat messages it shows for a response
appendMessage(resp) ==
  IF resp.kind = "json" /\ resp.message # <<>> THEN <<resp.message>> ELSE <<>>

(***************************************************************************)
(* The loop over the lines of a reply, on its own: one chat turn of the    *)
(* registration session with a reply made of ParserLines, started in the   *)
(* states that the first chat turn of the server leaves.                   *)
(***************************************************************************)
\* the request that the page sends when it is loaded
StartRequest == [Message |-> <<"s", "t", "a", "r", "t">>, AutoSave |-> FALSE]

\* the replies of the first turn
FirstReplies ==
  { SAY_ \o <<"h", "i">>,
    SET_ \o License \o <<" ", "A">>,
    SET_ \o VisitDate \o <<" ", "1">> }

\* the replies of the turn studied
ParserResponses ==
  { callChatGPT([kind |-> "ok", content |-> c]) : c \in ParserContents }

\* the state after handleChat("registration", StartRequest, reply c0) on the
\* state of Init
ParserInit ==
  \E c0 \in FirstReplies :
    LET chatResp == callChatGPT([kind |-> "ok", content |-> c0])
        session == AddUserMessage(NewSession("registration"),
                                  StartRequest.Message)
        t == ParseCommands(c0, session)
    IN /\ chatSessions =
            Put(EmptyMap, "registration",
                [session EXCEPT !.FormData = t.FormData])
       /\ files = [n \in {} |-> Truncated]
       /\ cookies = EmptyMap
       /\ request = [NoRequest EXCEPT !.handler = "chat",
                                      !.formName = "registration",
                                      !.Message = StartRequest.Message]
       /\ aiMessage = [called |-> TRUE, kind |-> chatResp.kind,
                       err |-> chatResp.err, Choices |-> chatResp.Choices]
       /\ saving = NoSave
       /\ response = ChatReply(t.responseText, t.formUpdates)
       /\ served = MaxRequests - 1
       /\ config = ShippedConfig
       /\ inflight = NoneInFlight
       /\ conversations = NoConversations
       /\ turn = NoTurn

ParserNext ==
  \E chatResp \in ParserResponses :
    handleChat("registration", StartRequest, chatResp)

ParserSpec == ParserInit /\ [][ParserNext]_vars

(***************************************************************************)
(* parseFormFields on its own: the form page handler on configurations     *)
(* whose <form_fields> are made of FieldLines.                             *)
(***************************************************************************)
\* field lines: with and without an example, indented, with a second colon
\* after the placeholder, blank, without a colon, without a placeholder
FieldLines ==
  { <<"L", "i", "c", "e", "n", "s", "e", ":", " ", "{", "{", ".", "L", "i",
      "c", "e", "n", "s", "e", "}", "}", " ", "(", "l", "i", "k", "e", " ",
      "5", ")">>,
    <<" ", " ", "C", "i", "t", "y", ":", " ", "{", "{", ".", "C", "i", "t",
      "y", "}", "}">>,
    <<"P", "h", "o", "n", "e", ":", " ", "{", "{", ".", "P", "h", "o", "n",
      "e", "}", "}", " ", "(", "l", "i", "k", "e", ":", " ", "3", ")">>,
    <<>>,
    <<"n", "o", " ", "c", "o", "l", "o", "n">>,
    <<"N", "a", "m", "e", ":", " ", "J", "o", "h", "n">> }

\* the <form_fields> made of up to MaxLines of these lines
FieldsTexts ==
  { Join(ls, "\n") : ls \in UNION { [1..n -> FieldLines] : n \in 0..MaxLines } }

\* the state after main has loaded a configuration whose forms have these
\* <form_fields>
FieldsInit ==
  /\ chatSessions = [f \in {} |-> NewSession(f)]
  /\ files = [n \in {} |-> Truncated]
  /\ cookies = EmptyMap
  /\ request = NoRequest
  /\ aiMessage = NoCall
  /\ saving = NoSave
  /\ response = NoResponse
  /\ served = 0
  /\ \E fieldsStr \in FieldsTexts :
       config = [formName \in FormNames |-> fieldsStr]
  /\ inflight = NoneInFlight
  /\ conversations = NoConversations
  /\ turn = NoTurn

FieldsNext ==
  \E formName \in FormNames, license \in LicenseQueries :
    formPage(formName, license)

FieldsSpec == FieldsInit /\ [][FieldsNext]_vars

(***************************************************************************)
(* The chat endpoint under concurrent requests.  net/http serves every     *)
(* request in a goroutine of its own, and handleChat takes no lock, so the *)
(* handlers of several requests run interleaved.  handleChat is cut where  *)
(* it reads or writes what the handlers share: the look-up in chatSessions,*)
(* the store of a new session, the append of the user message, the call of *)
(* the chat completions API, and the loop over the lines with the save and *)
(* the response.  The steps are atomic here; the accesses to the map and   *)
(* to the session are not synchronized in the code, so a build may do      *)
(* more (the runtime stops the process on map accesses that overlap), and  *)
(* every behaviour here is one that the build can produce.                 *)
(***************************************************************************)
\* the clients that send chat requests
Clients == {"c1", "c2"}

\* the chat requests started in one behaviour
MaxTurns == 3

\* the replies of the assistant in this study
TurnContents ==
  { SET_ \o License \o <<" ", "A">>, SAY_ \o <<"h", "i">>, SAVE }

\* what callChatGPT returns in this study
TurnResponses ==
  { callChatGPT([kind |-> "transport", content |-> <<>>]) }
    \cup { callChatGPT([kind |-> "ok", content |-> c]) : c \in TurnContents }

\* how the saves of this study end
TurnIOOutcomes == {"ok", "open"}

\* the locals of a handleChat that has decoded its request and looked the
\* session up: session is nil (pc "create") or the entry of the map
Decoded(formName, chatReq) ==
  [formName |-> formName, chatReq |-> chatReq,
   pc |-> IF formName \in DOMAIN chatSessions THEN "session" ELSE "create",
   own |-> <<>>, resp |-> NoCall]

\* the session that the variable session of a handler points to: the entry
\* of the map, or a session that was in the map when the handler looked it
\* up and has been replaced there since
Held(locals) ==
  IF locals.own = <<>> THEN chatSessions[locals.formName] ELSE locals.own[1]

\* the handlers without client
Others(client) == [c \in DOMAIN inflight \ {client} |-> inflight[c]]

\* the handler of client assigns through its pointer session and returns
AssignSessionAndReturn(client, session) ==
  LET locals == inflight[client] IN
  /\ chatSessions' = IF locals.own = <<>>
                     THEN Put(chatSessions, locals.formName, session)
                     ELSE chatSessions
  /\ inflight' = Others(client)

\* what a returning handler leaves for the observer
Returns(client, call) ==
  LET locals == inflight[client] IN
  /\ request' = [NoRequest EXCEPT !.handler = "chat",
                                  !.formName = locals.formName,
                                  !.Message = locals.chatReq.Message,
                                  !.AutoSave = locals.chatReq.AutoSave,
                                  !.client = client]
  /\ aiMessage' = call
  /\ cookies' = StoreCookies(cookies, response')
  /\ served' = served + 1

\* lines 228-241: the request is decoded and the session is looked up
beginChat(client, formName, chatReq) ==
  /\ client \notin DOMAIN inflight
  /\ served + Cardinality(DOMAIN inflight) < MaxTurns
  /\ inflight' = Put(inflight, client, Decoded(formName, chatReq))
  /\ UNCHANGED <<chatSessions, files, cookies, request, aiMessage, saving,
                 response, served, config, conversations, turn>>

\* lines 242-260: a handler that found no session makes one and stores it;
\* the handlers that have the session stored before keep their pointer to it
createSession(client) ==
  /\ client \in DOMAIN inflight
  /\ inflight[client].pc = "create"
  /\ LET formName == inflight[client].formName IN
     /\ chatSessions' = Put(chatSessions, formName, NewSession(formName))
     /\ inflight' =
          [c \in DOMAIN inflight |->
             IF c = client
             THEN [inflight[c] EXCEPT !.pc = "session"]
             ELSE IF /\ inflight[c].formName = formName
                     /\ inflight[c].pc # "create"
                     /\ inflight[c].own = <<>>
             THEN [inflight[c] EXCEPT !.own = <<chatSessions[formName]>>]
             ELSE inflight[c]]
  /\ UNCHANGED <<files, cookies, request, aiMessage, saving, response, served,
                 config, conversations, turn>>

\* lines 263-283: an auto-save request sets one field and saves at once
autoSave(client, io) ==
  /\ client \in DOMAIN inflight
  /\ inflight[client].pc = "session"
  /\ IsAutoSave(inflight[client].chatReq)
  /\ LET locals == inflight[client]
         session == Held(locals)
         parts == SplitN2(TrimPrefix(locals.chatReq.Message, SET_), " ")
         field == TrimSpace(parts[1])
         value == TrimSpace(parts[2])
         formData == Put(session.FormData, field, value)
         filename == SaveFilename(locals.formName, formData)
     IN /\ AssignSessionAndReturn(client, [session EXCEPT !.FormData = formData])
        /\ files' = WriteFile(files, filename, MarshalIndent(formData), io)
        /\ saving' = [shouldSave |-> TRUE, filename |-> filename,
                      written |-> io = "ok"]
        /\ response' = AutoSaveReply(field, value)
  /\ Returns(client, NoCall)
  /\ UNCHANGED <<config, conversations, turn>>

\* lines 285-292: the user message is appended and the request to the chat
\* completions API is sent
appendUser(client) ==
  /\ client \in DOMAIN inflight
  /\ inflight[client].pc = "session"
  /\ ~IsAutoSave(inflight[client].chatReq)
  /\ LET locals == inflight[client]
         session == AddUserMessage(Held(locals), locals.chatReq.Message)
     IN IF locals.own = <<>>
        THEN /\ chatSessions' = Put(chatSessions, locals.formName, session)
             /\ inflight' = [inflight EXCEPT ![client].pc = "calling"]
        ELSE /\ chatSessions' = chatSessions
             /\ inflight' = [inflight EXCEPT ![client].pc = "calling",
                                             ![client].own = <<session>>]
  /\ UNCHANGED <<files, cookies, request, aiMessage, saving, response, served,
                 config, conversations, turn>>

\* client.Do(req) of callChatGPT returns: a step of the API, which the
\* http.Client{} of line 391 waits for without a timeout
llmAnswers(client, chatResp) ==
  /\ client \in DOMAIN inflight
  /\ inflight[client].pc = "calling"
  /\ inflight' = [inflight EXCEPT ![client].pc = "answered",
                                  ![client].resp =
                                    [called |-> TRUE, kind |-> chatResp.kind,
                                     err |-> chatResp.err,
                                     Choices |-> chatResp.Choices]]
  /\ UNCHANGED <<chatSessions, files, cookies, request, aiMessage, saving,
                 response, served, config, conversations, turn>>

\* lines 293-366: the error of the call, or the loop over the lines, the
\* save and the response
finishChat(client, io) ==
  /\ client \in DOMAIN inflight
  /\ inflight[client].pc = "answered"
  /\ LET locals == inflight[client]
         session == Held(locals)
         chatResp == locals.resp
     IN /\ IF chatResp.err
           THEN /\ AssignSessionAndReturn(client, session)
                /\ response' = HttpError("AI service error", 500)
                /\ saving' = NoSave
                /\ UNCHANGED files
           ELSE LET t == ParseCommands(chatResp.Choices[1], session)
                    filename == SaveFilename(locals.formName, t.FormData)
                IN /\ AssignSessionAndReturn(
                        client, [session EXCEPT !.FormData = t.FormData])
                   /\ IF t.shouldSave
                      THEN /\ files' = WriteFile(files, filename, FormJSON(t), io)
                           /\ response' = SaveOutcome(t, filename, io)
                           /\ saving' = [shouldSave |-> TRUE,
                                         filename |-> filename,
                                         written |-> io = "ok"]
                      ELSE /\ response' = ChatReply(t.responseText, t.formUpdates)
                           /\ saving' = NoSave
                           /\ UNCHANGED files
        /\ Returns(client, chatResp)
  /\ UNCHANGED <<config, conversations, turn>>

\* the steps of the handlers
TurnProgram ==
  \/ \E client \in Clients : createSession(client)
  \/ \E client \in Clients, io \in TurnIOOutcomes : autoSave(client, io)
  \/ \E client \in Clients : appendUser(client)
  \/ \E client \in Clients, io \in TurnIOOutcomes : finishChat(client, io)

\* the steps of the clients and of the chat completions API
TurnEnvironment ==
  \/ \E client \in Clients, formName \in FormNames, chatReq \in ChatRequests :
       beginChat(client, formName, chatReq)
  \/ \E client \in Clients, chatResp \in TurnResponses :
       llmAnswers(client, chatResp)

TurnNext == TurnProgram \/ TurnEnvironment

TurnSpec == Init /\ [][TurnNext]_vars

\* the scheduler runs every goroutine that can run; nothing makes a client
\* send a request or the API answer one
TurnFairSpec == TurnSpec /\ WF_vars(TurnProgram)

(***************************************************************************)
(* The auto-save branch of handleChat, on its own: the chat endpoint on    *)
(* requests with and without autoSave, whose messages are SET lines with   *)
(* a value, with an empty value, without a value, and other text.          *)
(***************************************************************************)
\* the bodies of the requests
AutoSaveRequests ==
  { [Message |-> SET_ \o FirstName \o <<" ", "J">>, AutoSave |-> TRUE],
    [Message |-> SET_ \o License \o <<" ", "B">>, AutoSave |-> TRUE],
    [Message |-> SET_ \o FirstName \o <<" ">>, AutoSave |-> TRUE],
    [Message |-> SET_ \o FirstName, AutoSave |-> TRUE],
    [Message |-> <<"h", "e", "l", "l", "o">>, AutoSave |-> TRUE],
    [Message |-> SET_ \o FirstName \o <<" ", "J">>, AutoSave |-> FALSE],
    StartRequest }

AutoSaveNext ==
  \/ \E formName \in FormNames, chatReq \in AutoSaveRequests,
        io \in IOOutcomes :
       handleAutoSave(formName, chatReq, io)
  \/ \E formName \in FormNames, chatReq \in AutoSaveRequests,
        chatResp \in TurnResponses :
       handleChat(formName, chatReq, chatResp)

AutoSaveSpec == Init /\ [][AutoSaveNext]_vars

(***************************************************************************)
(* src/main.go: the variant of the server that detects the language of     *)
(* the patient.  Its handleChat keeps one conversation for each form type  *)
(* in the global map conversations, asks the chat completions API for the  *)
(* language of every user message, for the translation of the form and     *)
(* for the reply, and saves the form with saveForm when the reply says     *)
(* that the form is complete.  The API is called through the go-openai     *)
(* client, which is not in src/: a call returns an error, or a response    *)
(* with one choice, as the API answers a request for one completion.       *)
(***************************************************************************)
\* the chat requests served in one behaviour
MaxChats == 2

\* the form types that main registers a chat endpoint for
FormTypes == {"register", "visit"}

\* unicode.ToLower on the letters of the replies
Lower ==
  ("A" :> "a") @@ ("B" :> "b") @@ ("C" :> "c") @@ ("D" :> "d") @@
  ("E" :> "e") @@ ("F" :> "f") @@ ("G" :> "g") @@ ("H" :> "h") @@
  ("I" :> "i") @@ ("J" :> "j") @@ ("K" :> "k") @@ ("L" :> "l") @@
  ("M" :> "m") @@ ("N" :> "n") @@ ("O" :> "o") @@ ("P" :> "p") @@
  ("Q" :> "q") @@ ("R" :> "r") @@ ("S" :> "s") @@ ("T" :> "t") @@
  ("U" :> "u") @@ ("V" :> "v") @@ ("W" :> "w") @@ ("X" :> "x") @@
  ("Y" :> "y") @@ ("Z" :> "z")

\* strings.ToLower
ToLower(s) ==
  [i \in 1..Len(s) |-> IF s[i] \in DOMAIN Lower THEN Lower[s[i]] ELSE s[i]]

\* strings.Contains
Contains(s, substr) == Index(s, substr) # 0

\* the last phrase of isFormComplete, one element for each code point
FormCompleteChinese == <<"U+8868", "U+683C", "U+5B8C", "U+6210">>

\* the phrases are looked for in the reply as it is written
isFormComplete_CaseSensitive(botResponse) ==
  LET lowered == botResponse IN
  \/ Contains(lowered, <<"f", "o", "r", "m", " ", "i", "s", " ", "c", "o", "m", "p", "l", "e", "t", "e">>)
  \/ Contains(lowered, <<"f", "o", "r", "m", " ", "c", "o", "m", "p", "l", "e", "t", "e">>)
  \/ Contains(lowered,
              <<"f", "o", "r", "m", "u", "l", "a", "r", "i", "o", " ", "c", "o", "m", "p", "l", "e", "t", "o">>)
  \/ Contains(lowered,
              <<"f", "o", "r", "m", "u", "l", "a", "i", "r", "e", " ", "c", "o", "m", "p", "l", "e", "t">>)
  \/ Contains(lowered, FormCompleteChinese)

isFormComplete(botResponse) ==
  LET lowered == ToLower(botResponse) IN
  \/ Contains(lowered, <<"f", "o", "r", "m", " ", "i", "s", " ", "c", "o", "m", "p", "l", "e",
      "t", "e">>)
  \/ Contains(lowered, <<"f", "o", "r", "m", " ", "c", "o", "m", "p", "l", "e", "t", "e">>)
  \/ Contains(lowered, <<"f", "o", "r", "m", "u", "l", "a", "r", "i", "o", " ", "c", "o", "m",
      "p", "l", "e", "t", "o">>)
  \/ Contains(lowered, <<"f", "o", "r", "m", "u", "l", "a", "i", "r", "e", " ", "c", "o", "m",
      "p", "l", "e", "t">>)
  \/ Contains(lowered, FormCompleteChinese)

\* getSystemPrompt: the system prompt of a form type; no code calls it
getSystemPrompt(formType) ==
  IF formType \in FormTypes THEN <<"helping", "prompt", formType>> ELSE <<>>

\* getFormTemplate: the HTML of the completed form, by its name
getFormTemplate(formType) ==
  IF formType \in FormTypes THEN <<"template", formType>> ELSE <<>>

\* the messages that patients send
UserMessages == { <<"J", "o", "h", "n">>, <<"h", "o", "l", "a">> }

\* the replies of the assistant: with the completion phrases in several
\* cases and inside other text, and without them
BotResponses ==
  { <<"o", "k">>,
    <<"F", "o", "r", "m", " ", "i", "s", " ", "c", "o", "m", "p", "l", "e",
      "t", "e">>,
    <<"F", "O", "R", "M", " ", "C", "O", "M", "P", "L", "E", "T", "E">>,
    <<"F", "o", "r", "m", "u", "l", "a", "r", "i", "o", " ", "c", "o", "m",
      "p", "l", "e", "t", "o", ".">>,
    <<"i", "n", " ", "c", "o", "m", "p", "l", "e", "t", "e", " ", "f", "o",
      "r", "m">>,
    <<"o", "k", " ">> \o FormCompleteChinese }

\* isFormComplete, tabulated for the replies of the model
FormCompleteTable == [r \in BotResponses |-> isFormComplete(r)]

\* how detectLanguage goes: the call fails ("en" and the error), or the
\* reply is a language code
Detections ==
  { [err |-> TRUE, lang |-> "en"],
    [err |-> FALSE, lang |-> "en"],
    [err |-> FALSE, lang |-> "es"] }

\* translateFormTemplate: the template for "en" without a call, the
\* template and the error when the call fails, the reply otherwise
translateFormTemplate(template, langCode, callFails) ==
  IF langCode = "en" THEN [err |-> FALSE, text |-> template]
  ELSE IF callFails THEN [err |-> TRUE, text |-> template]
  ELSE [err |-> FALSE, text |-> <<"translated", langCode, template>>]

\* the system message of lines 295-306
SystemMsg(translatedTemplate, detectedLang) ==
  [Role |-> "system", Content |-> <<"helping", translatedTemplate, detectedLang>>]

\* how CreateChatCompletion of handleChat goes
Completions ==
  { [err |-> TRUE, content |-> <<>>] }
    \cup { [err |-> FALSE, content |-> r] : r \in BotResponses }

\* how saveForm goes: it writes the form, or the extraction call fails, or
\* the extracted text is not JSON, or os.WriteFile fails
SaveFormOutcomes == {"ok", "extract", "parse", "write"}

\* saveForm: the files after it, and whether it returns an error.  The
\* file is named after the form type and the second of the clock.
saveForm(fs, formType, messages, outcome, timestamp) ==
  IF outcome = "ok"
  THEN [err |-> FALSE,
        files |-> Put(fs, <<"forms/", formType, "_", timestamp, ".txt">>,
                      [form |-> formType, from |-> messages])]
  ELSE [err |-> TRUE, files |-> fs]

\* extractName: the content of the first user message
RECURSIVE extractName(_)
extractName(messages) ==
  IF messages = <<>> THEN <<>>
  ELSE IF Head(messages).Role = "user" THEN Head(messages).Content
  ELSE extractName(Tail(messages))

\* lines 269-277: the conversation of the form type, made when there is none
GetConversation(formType) ==
  IF formType \in DOMAIN conversations
  THEN conversations[formType]
  ELSE [Messages |-> <<>>, Language |-> "en"]

\* lines 279-319: the language is detected, and when it is not the language
\* of the conversation the system message is written again
DetectLanguage(conv, formType, detected, translationFails) ==
  IF detected.err \/ detected.lang = conv.Language
  THEN conv
  ELSE LET translated ==
             translateFormTemplate(getFormTemplate(formType), detected.lang,
                                   translationFails)
           systemMsg == SystemMsg(translated.text, detected.lang)
       IN [Language |-> detected.lang,
           Messages |->
             IF Len(conv.Messages) > 0 /\ conv.Messages[1].Role = "system"
             THEN [conv.Messages EXCEPT ![1] = systemMsg]
             ELSE <<systemMsg>> \o conv.Messages]

\* delete(conversations, formType)
Delete(m, k) == [x \in DOMAIN m \ {k} |-> m[x]]

\* handleChat of src/main.go on a request whose body is decoded
mainHandleChat(formType, message, detected, translationFails, completion, saveOutcome, timestamp) ==
  /\ served < MaxChats
  /\ LET conv == DetectLanguage(GetConversation(formType), formType, detected,
                                translationFails)
         sent == Append(conv.Messages, [Role |-> "user", Content |-> message])
         botResponse == completion.content
         answered == Append(sent, [Role |-> "assistant", Content |-> botResponse])
         saved == saveForm(files, formType, answered, saveOutcome, timestamp)
     IN IF completion.err
        THEN \* CreateChatCompletion failed
             /\ conversations' =
                  Put(conversations, formType, [conv EXCEPT !.Messages = sent])
             /\ turn' = [NoTurn EXCEPT !.formType = formType,
                                       !.Message = message, !.status = 500,
                                       !.sent = sent, !.err = TRUE]
             /\ UNCHANGED files
        ELSE IF FormCompleteTable[botResponse]
        THEN \* the error of saveForm is logged, and the conversation deleted
             /\ files' = saved.files
             /\ conversations' = Delete(conversations, formType)
             /\ turn' = [NoTurn EXCEPT
                           !.formType = formType, !.Message = message,
                           !.status = 200, !.sent = sent,
                           !.reply = botResponse, !.complete = TRUE,
                           !.saveErr = IF saved.err THEN saveOutcome ELSE "none",
                           !.response =
                             IF formType = "register"
                             THEN <<botResponse, "visit form",
                                    extractName(answered)>>
                             ELSE <<botResponse>>]
        ELSE /\ conversations' =
                  Put(conversations, formType,
                      [conv EXCEPT !.Messages = answered])
             /\ turn' = [NoTurn EXCEPT !.formType = formType,
                                       !.Message = message, !.status = 200,
                                       !.sent = sent, !.reply = botResponse,
                                       !.response = <<botResponse>>]
             /\ UNCHANGED files
  /\ served' = served + 1
  /\ UNCHANGED <<chatSessions, cookies, request, aiMessage, saving, response,
                 config, inflight>>

\* the body of the request is not JSON: 400, before the conversation is
\* looked up
mainBadRequest(formType) ==
  /\ served < MaxChats
  /\ turn' = [NoTurn EXCEPT !.formType = formType, !.status = 400]
  /\ served' = served + 1
  /\ UNCHANGED <<chatSessions, files, cookies, request, aiMessage, saving,
                 response, config, inflight, conversations>>

MainNext ==
  \/ \E formType \in FormTypes, message \in UserMessages,
        detected \in Detections, translationFails \in BOOLEAN,
        completion \in Completions, saveOutcome \in SaveFormOutcomes,
        timestamp \in 1..MaxChats :
       mainHandleChat(formType, message, detected, translationFails,
                      completion, saveOutcome, timestamp)
  \/ \E formType \in FormTypes : mainBadRequest(formType)

MainSpec == Init /\ [][MainNext]_vars

(***************************************************************************)
(* Vocabulary of the properties.                                           *)
(***************************************************************************)
\* the request just served was a chat turn that called the model
ChatTurn == request.handler = "chat" /\ aiMessage.called

\* ... and the model's response held a choice
Answered == ChatTurn /\ ~aiMessage.err /\ Len(aiMessage.Choices) > 0

\* the request just served was a chat request that wrote its record
Saved == request.handler = "chat" /\ saving.shouldSave /\ saving.written

\* the session of the request just served
Session == chatSessions[request.formName]

\* the record stored in a file
Record(fs, filename) == Unmarshal(fs[filename], EmptyMap)

\* the index of the last SAVE among the commands of a reply, 0 if none
LastSave(commands) ==
  LET S == { i \in 1..Len(commands) : commands[i].case = "SAVE" } IN
  IF S = {} THEN 0 ELSE CHOOSE i \in S : \A j \in S : j <= i

\* the values of the primary-key fields of a form, in declared order
KeyValues(formName, formData) ==
  [i \in 1..Len(PrimaryKey(formName)) |-> Get(formData, PrimaryKey(formName)[i])]

\* every primary-key field of the form has a value
HasKey(formName, formData) ==
  \A i \in 1..Len(PrimaryKey(formName)) :
    PrimaryKey(formName)[i] \in DOMAIN formData

(***************************************************************************)
(* C1.  Directives take effect in line order: a SET that comes after the   *)
(* last SAVE line of a reply is not part of the record which that turn     *)
(* writes; the record holds the field's value as of the SAVE line.         *)
(* The code notes SAVE in shouldSave and writes after the loop, so this is *)
(* violated.                                                               *)
(***************************************************************************)
C1_SaveWritesStateAtSaveLine ==
  [][ (Answered' /\ saving'.written) =>
        LET before == GetSession(request'.formName)
            commands == Commands(aiMessage'.Choices[1])
            k == LastSave(commands)
            atSave == ExecuteAll(SubSeq(commands, 1, k), StartTurn(before))
            record == Record(files', saving'.filename)
        IN \A j \in (k + 1)..Len(commands) :
             commands[j].case = "SET" =>
               Get(record, commands[j].field)
                 = Get(atSave.FormData, commands[j].field) ]_vars

(***************************************************************************)
(* C2.  After a chat turn whose model call returned a choice, the session's*)
(* messages end with the user message of the turn followed by an assistant *)
(* message holding the raw reply.  The code never appends the reply, so    *)
(* this is violated.                                                       *)
(***************************************************************************)
C2_AssistantReplyAppended ==
  Answered =>
    LET m == Session.Messages IN
    /\ Len(m) >= 3
    /\ m[Len(m)] = [Role |-> "assistant", Content |-> aiMessage.Choices[1]]
    /\ m[Len(m) - 1] = [Role |-> "user", Content |-> request.Message]

(***************************************************************************)
(* C3.  When callChatGPT returns an error, the turn ends with the 500      *)
(* "AI service error" response, the user's message is the one thing added  *)
(* to the session, FormData is as before and no file changes.              *)
(***************************************************************************)
C3_FailedCallKeepsOnlyUserMessage ==
  [][ (ChatTurn' /\ aiMessage'.err) =>
        LET before == GetSession(request'.formName)
            after == chatSessions'[request'.formName]
        IN /\ response' = HttpError("AI service error", 500)
           /\ after.Messages =
                Append(before.Messages,
                       [Role |-> "user", Content |-> request'.Message])
           /\ after.FormData = before.FormData
           /\ files' = files
           /\ ~saving'.shouldSave
           /\ \A f \in DOMAIN chatSessions \ {request'.formName} :
                chatSessions'[f] = chatSessions[f] ]_vars

\* a failed call on a session that already holds field values, with a record
\* on disk
C3_Witness ==
  /\ ChatTurn /\ aiMessage.err
  /\ Session.FormData # EmptyMap
  /\ DOMAIN files # {}
  /\ response.status = 500

(***************************************************************************)
(* C4.  A turn with SAVE while a primary-key field of the form has no      *)
(* value fails with an error and writes nothing, so that no file is        *)
(* written under an empty key.  The code writes forms/registration-.json   *)
(* and answers 200, so this is violated.                                   *)
(***************************************************************************)
C4_SaveWithoutKeyFails ==
  (ChatTurn /\ saving.shouldSave
     /\ ~HasKey(request.formName, Session.FormData))
    => (response.status # 200 /\ ~saving.written)

(***************************************************************************)
(* C5.  The file of a record depends on the form name: a save by the       *)
(* session of one form does not write the file that holds the record which *)
(* the session of another form has just saved.  The code names every file  *)
(* forms/registration-<License>.json, so this is violated.                 *)
(***************************************************************************)
C5_FormsDoNotShareFiles ==
  [][ (Saved /\ Saved' /\ request'.formName # request.formName)
        => saving'.filename # saving.filename ]_vars

(***************************************************************************)
(* C6.  Two saves of one form whose primary-key values differ are stored   *)
(* as two records: the later save does not write the file of the earlier.  *)
(* The code takes License alone for the file name, so for the visit form   *)
(* (License, VisitDate) this is violated.                                  *)
(***************************************************************************)
C6_DistinctKeysDistinctRecords ==
  [][ ( /\ Saved /\ Saved'
        /\ request'.formName = request.formName
        /\ HasKey(request.formName, Session.FormData)
        /\ HasKey(request.formName, Session'.FormData)
        /\ KeyValues(request.formName, Session.FormData)
             # KeyValues(request.formName, Session'.FormData) )
        => /\ saving'.filename # saving.filename
           /\ files'[saving.filename] = files[saving.filename] ]_vars

(***************************************************************************)
(* C7.  A save that succeeds writes the whole FormData of the session: the *)
(* record in the file equals the session's FormData after the turn, and    *)
(* every field the session held before the turn is in it, with its old     *)
(* value unless the turn set it.                                           *)
(***************************************************************************)
C7_SaveWritesWholeFormData ==
  [][ Saved' =>
        LET before == GetSession(request'.formName).FormData
            after == chatSessions'[request'.formName].FormData
            record == Record(files', saving'.filename)
        IN /\ record = after
           /\ \A k \in DOMAIN before :
                /\ k \in DOMAIN record
                /\ k \notin DOMAIN response'.updates => record[k] = before[k]
     ]_vars

\* a turn saved a record with a field that an earlier request had set
C7_Witness ==
  /\ Saved /\ Answered
  /\ \E k \in DOMAIN Record(files, saving.filename) :
       k \notin DOMAIN response.updates

(***************************************************************************)
(* C8.  Round trip of save and load: the form page requested with          *)
(* License = L right after a registration session saved its record R with  *)
(* that License gets exactly R as InitialData; and a form page requested   *)
(* with a License under which there is no file gets empty InitialData and  *)
(* is served normally.                                                     *)
(***************************************************************************)
C8_SaveLoadRoundTrip ==
  [][ /\ ( /\ Saved /\ request.formName = "registration"
           /\ License \in DOMAIN Session.FormData
           /\ request'.handler = "page"
           /\ request'.License = Session.FormData[License] )
         => /\ response'.InitialData = Session.FormData
            /\ response'.status = 200
      /\ ( /\ request'.handler = "page"
           /\ Filename(request'.License) \notin DOMAIN files )
         => /\ response'.InitialData = EmptyMap
            /\ response'.status = 200
            /\ response'.kind = "html" ]_vars

\* a form page was served with the fields of a saved record
C8_Witness ==
  /\ request.handler = "page"
  /\ request.License # <<>>
  /\ License \in DOMAIN response.InitialData
  /\ response.InitialData[License] = request.License

(***************************************************************************)
(* C9.  When the session of a dependent form is created while a record of  *)
(* its context form exists, the new session's FormData holds every field   *)
(* of that record and its system message holds the record's JSON.  The     *)
(* code creates every session with an empty FormData and an empty context  *)
(* argument, so this is violated.                                          *)
(***************************************************************************)
C9_ContextLoadedAtCreation ==
  [][ \A l \in LicenseQueries :
        ( /\ request'.handler = "chat"
          /\ ContextForm(request'.formName) # request'.formName
          /\ request'.formName \notin DOMAIN chatSessions
          /\ request'.formName \in DOMAIN chatSessions'
          /\ LoadInitialData(files, l) # EmptyMap )
        => LET record == LoadInitialData(files, l)
               created == chatSessions'[request'.formName]
           IN /\ \A k \in DOMAIN record : k \in DOMAIN created.FormData
              /\ created.Messages[1].Content
                   # Sprintf(Prompt(request'.formName),
                             <<SystemPrompt, Fields(request'.formName), <<>> >>)
     ]_vars

(***************************************************************************)
(* C10.  The linking cookie: after a registration turn has saved, the      *)
(* client holds a License cookie equal to the saved License; a License     *)
(* cookie exists only for a saved record; and the visit form page finds    *)
(* the record through the cookie.  The code sets no cookie, so this is     *)
(* violated.                                                               *)
(***************************************************************************)
C10_SaveSetsLinkingCookie ==
  /\ ( /\ Saved /\ request.formName = "registration"
       /\ License \in DOMAIN Session.FormData )
     => Get(cookies, License) = Session.FormData[License]
  /\ License \in DOMAIN cookies
     => Filename(cookies[License]) \in DOMAIN files
  /\ ( /\ request.handler = "page" /\ request.formName = "visit"
       /\ License \in DOMAIN cookies )
     => response.InitialData = LoadInitialData(files, cookies[License])

(***************************************************************************)
(* C11.  A chat turn whose reply holds SAVE and whose save fails, in       *)
(* os.MkdirAll or in os.WriteFile, is answered with an error: status 500   *)
(* and a plain text, never the JSON body with message and updates.         *)
(***************************************************************************)
C11_FailedSaveIsAnError ==
  (ChatTurn /\ saving.shouldSave /\ ~saving.written)
    => /\ response.status = 500
       /\ response.kind = "text"
       /\ response.text \in {"Failed to create forms directory",
                             "Failed to save form"}
       /\ response.keys = {}

\* a turn's write failed after the file was opened, and the turn got a 500
C11_Witness ==
  /\ ChatTurn /\ saving.shouldSave /\ ~saving.written
  /\ saving.filename \in DOMAIN files
  /\ files[saving.filename] = Truncated
  /\ response = HttpError("Failed to save form", 500)

(***************************************************************************)
(* C12.  A chat turn that ends with an error leaves the FormData of the    *)
(* session as it was before the turn.  The loop over the lines assigns     *)
(* session.FormData before the save is tried, so a turn whose save fails   *)
(* keeps the fields it set, and this is violated.                          *)
(***************************************************************************)
C12_FailedTurnKeepsFormData ==
  [][ (ChatTurn' /\ response'.status # 200)
        => chatSessions'[request'.formName].FormData
             = GetSession(request'.formName).FormData ]_vars

(***************************************************************************)
(* C13.  Every failure of the chat completions call ends the turn with the *)
(* service error, and every turn ends either with the JSON body of message *)
(* and updates or with an error.  callChatGPT does not look at the status  *)
(* code and handleChat writes nothing when there is no choice, so this is  *)
(* violated.                                                               *)
(***************************************************************************)
C13_EveryLLMFailureIsAServiceError ==
  ChatTurn =>
    /\ aiMessage.kind # "ok" => response = HttpError("AI service error", 500)
    /\ \/ response.status # 200
       \/ response.kind = "json" /\ response.keys = {"message", "updates"}

(***************************************************************************)
(* The protocol as it is documented: a line, trimmed, is SAVE, or SAY and  *)
(* white space and a text, or SET and white space and a field name and     *)
(* white space and a value.                                                *)
(***************************************************************************)
\* the characters of s before its first white space
RECURSIVE FirstWord(_)
FirstWord(s) ==
  IF s = <<>> \/ Head(s) \in WhiteSpace THEN <<>>
  ELSE <<Head(s)>> \o FirstWord(Tail(s))

\* s without its first word and the white space around the rest
AfterFirstWord(s) == TrimSpace(SubSeq(s, Len(FirstWord(s)) + 1, Len(s)))

\* the directive that a line stands for, Ignored when it stands for none
Directive(rawLine) ==
  LET line == TrimSpace(rawLine)
      word == FirstWord(line)
      rest == AfterFirstWord(line)
  IN IF line = SAVE
     THEN [case |-> "SAVE", field |-> <<>>, value |-> <<>>]
     ELSE IF word = <<"S", "A", "Y">> /\ rest # <<>>
     THEN [case |-> "SAY", field |-> <<>>, value |-> rest]
     ELSE IF word = <<"S", "E", "T">>
               /\ FirstWord(rest) # <<>> /\ AfterFirstWord(rest) # <<>>
     THEN [case |-> "SET", field |-> FirstWord(rest),
           value |-> AfterFirstWord(rest)]
     ELSE Ignored

\* the directives of the lines of a reply, line by line
DirectivesOf(content) ==
  LET lines == Split(content, "\n") IN
  [i \in 1..Len(lines) |-> Directive(lines[i])]

\* DirectivesOf, tabulated for the replies of the model
DirectiveTable ==
  [content \in Contents \cup ParserContents |-> DirectivesOf(content)]

\* the directives of the reply of the turn just served
Directives == DirectiveTable[aiMessage.Choices[1]]

\* the texts of the SAY lines, in line order
SayTexts ==
  LET say(d) == d.case = "SAY" IN
  [i \in 1..Len(SelectSeq(Directives, say)) |->
     SelectSeq(Directives, say)[i].value]

C15_EverySayIsAMessage ==
  (Answered /\ response.kind = "json") => appendMessage(response) = SayTexts

\* SET, where a line begins with it, is followed by one space and the name
SetSeparatorIsOneSpace(rawLine) ==
  LET line == TrimSpace(rawLine) IN
  (FirstWord(line) = <<"S", "E", "T">> /\ Len(line) > 3)
    => (line[4] = " " /\ line[5] \notin WhiteSpace)

\* the replies in which every SET is written that way
OneSpaceContents ==
  { content \in Contents \cup ParserContents :
      LET lines == Split(content, "\n") IN
      \A i \in 1..Len(lines) : SetSeparatorIsOneSpace(lines[i]) }

\* the lines of a sequence of directives that set field f
SetLines(ds, f) ==
  { i \in 1..Len(ds) : ds[i].case = "SET" /\ ds[i].field = f }

\* the fields that a sequence of directives sets
SetFields(ds) == { ds[i].field : i \in { j \in 1..Len(ds) : ds[j].case = "SET" } }

\* the value of the last directive that sets field f
LastSet(ds, f) ==
  ds[CHOOSE i \in SetLines(ds, f) : \A j \in SetLines(ds, f) : j <= i].value

(***************************************************************************)
(* C16.  The SET lines of a reply are applied in line order and the last   *)
(* one of a field wins: after the turn the session's FormData, and the     *)
(* updates of the response, hold for every field set in the turn the value *)
(* of its last SET line, whatever lines stand between; the fields not set  *)
(* in the turn are in FormData as before.  This is about SET lines written *)
(* with one space after SET; longer runs of white space are C20's.         *)
(***************************************************************************)
C16_LastSetWins ==
  [][ (Answered' /\ aiMessage'.Choices[1] \in OneSpaceContents)
      => LET before == GetSession(request'.formName).FormData
             after == chatSessions'[request'.formName].FormData
             ds == DirectiveTable[aiMessage'.Choices[1]]
         IN /\ DOMAIN after = DOMAIN before \cup SetFields(ds)
            /\ \A f \in SetFields(ds) : after[f] = LastSet(ds, f)
            /\ \A f \in DOMAIN before \ SetFields(ds) : after[f] = before[f]
            /\ response'.kind = "json"
                 => /\ DOMAIN response'.updates = SetFields(ds)
                    /\ \A f \in SetFields(ds) :
                         response'.updates[f] = LastSet(ds, f) ]_vars

\* a reply set License twice, to different values, with another line in
\* between, and the session held a field that the reply did not set
C16_Witness ==
  /\ Answered /\ response.kind = "json"
  /\ Len(Directives) = 3
  /\ Directives[1].case = "SET" /\ Directives[3].case = "SET"
  /\ Directives[1].field = License /\ Directives[3].field = License
  /\ Directives[1].value # Directives[3].value
  /\ Directives[2].case # "SET"
  /\ response.updates[License] = Directives[3].value
  /\ Session.FormData[License] = Directives[3].value
  /\ VisitDate \in DOMAIN Session.FormData
  /\ VisitDate \notin DOMAIN response.updates

\* the lines of a sequence of directives that are SAVE
SaveLines(ds) == { i \in 1..Len(ds) : ds[i].case = "SAVE" }

(***************************************************************************)
(* C17.  SET and SAVE need no SAY.  A reply with SAVE and without SAY      *)
(* makes the turn save; when the write succeeds the response has an empty  *)
(* message and the updates of every SET line, and the record holds the     *)
(* session's FormData.  A reply with one or several SAVE lines makes one   *)
(* save: no file but the one of the session's License is touched.          *)
(***************************************************************************)
C17_SetAndSaveWithoutSay ==
  [][ (Answered' /\ aiMessage'.Choices[1] \in OneSpaceContents)
      => LET ds == DirectiveTable[aiMessage'.Choices[1]]
             after == chatSessions'[request'.formName].FormData
             noSay == \A i \in 1..Len(ds) : ds[i].case # "SAY"
         IN /\ saving'.shouldSave = (SaveLines(ds) # {})
            /\ SaveLines(ds) # {} =>
                 /\ saving'.filename = Filename(Get(after, License))
                 /\ \A n \in (DOMAIN files \cup DOMAIN files') \ {saving'.filename} :
                      /\ n \in DOMAIN files /\ n \in DOMAIN files'
                      /\ files'[n] = files[n]
                 /\ saving'.written =>
                      /\ Record(files', saving'.filename) = after
                      /\ response'.kind = "json"
                      /\ DOMAIN response'.updates = SetFields(ds)
                      /\ noSay => response'.message = <<>>
            /\ SaveLines(ds) = {} => files' = files ]_vars

\* a reply with SET lines, two SAVE lines and no SAY line was answered, and
\* its record written
C17_Witness ==
  /\ Answered /\ saving.shouldSave /\ saving.written
  /\ Cardinality(SaveLines(Directives)) = 2
  /\ SetFields(Directives) # {}
  /\ SayTexts = <<>>
  /\ response.kind = "json" /\ response.message = <<>>
  /\ DOMAIN response.updates = SetFields(Directives)
  /\ DOMAIN files = {saving.filename}

\* a reply without its lines that stand for no directive
RemoveUnrecognized(content) ==
  LET lines == Split(content, "\n")
      recognized(i) == Directive(lines[i]).case # "none"
      kept == SelectSeq([i \in 1..Len(lines) |-> i], recognized)
  IN Join([k \in 1..Len(kept) |-> lines[kept[k]]], "\n")

\* RemoveUnrecognized, tabulated for the replies of the model
RemoveUnrecognizedTable ==
  [content \in Contents \cup ParserContents |-> RemoveUnrecognized(content)]

(***************************************************************************)
(* C18.  Lines that stand for no directive change nothing: the turn ends   *)
(* as it would on the reply without them, in FormData, in the decision to  *)
(* save, and in the message and the updates of the response.  The code     *)
(* takes the line SET, two spaces, one word for a SET of the field with    *)
(* the empty name, so this is violated.                                    *)
(***************************************************************************)
C18_UnrecognizedLinesChangeNothing ==
  [][ Answered'
      => LET clean == RemoveUnrecognizedTable[aiMessage'.Choices[1]]
             t == ParseCommands(clean, GetSession(request'.formName))
         IN /\ chatSessions'[request'.formName].FormData = t.FormData
            /\ saving'.shouldSave = t.shouldSave
            /\ response'.kind = "json"
                 => /\ response'.message = t.responseText
                    /\ response'.updates = t.formUpdates
            /\ ~t.shouldSave => response'.status = 200 ]_vars

\* directives with texts, names and values of the kinds the protocol allows:
\* no white space at the ends, none in a name, some inside a value
DirectivePool ==
  { [case |-> "SAY", field |-> <<>>, value |-> <<"h", "i">>],
    [case |-> "SAY", field |-> <<>>, value |-> <<"y", "o">>],
    [case |-> "SET", field |-> License, value |-> <<"A">>],
    [case |-> "SET", field |-> License, value |-> <<"B">>],
    [case |-> "SET", field |-> City, value |-> <<"N", " ", "Y">>],
    [case |-> "SAVE", field |-> <<>>, value |-> <<>>] }

\* the lists of up to MaxLines directives
DirectiveLists ==
  UNION { [1..n -> DirectivePool] : n \in 0..MaxLines }

\* a directive written as a line
Serialize(d) ==
  IF d.case = "SAY" THEN SAY_ \o d.value
  ELSE IF d.case = "SET" THEN SET_ \o d.field \o <<" ">> \o d.value
  ELSE SAVE

\* a list of directives written as a reply, tabulated for DirectiveLists
SerializeTable ==
  [ds \in DirectiveLists |->
     Join([i \in 1..Len(ds) |-> Serialize(ds[i])], "\n")]

\* the commands that the loop takes from a reply, without the lines it skips
Recognized(content) ==
  LET isCommand(c) == c.case # "none" IN
  SelectSeq(CommandTable[content], isCommand)

(***************************************************************************)
(* C19.  Round trip: a list of directives written as SAY, SET and SAVE     *)
(* lines and given to the loop as the reply of a turn is recognized as the *)
(* same directives in the same order.                                      *)
(***************************************************************************)
C19_SerializeParseRoundTrip ==
  Answered =>
    \A ds \in DirectiveLists :
      SerializeTable[ds] = aiMessage.Choices[1]
        => Recognized(aiMessage.Choices[1]) = ds

\* the reply of a turn was the text of three directives, a SET with white
\* space in its value among them
C19_Witness ==
  /\ Answered
  /\ \E ds \in DirectiveLists :
       /\ Len(ds) = MaxLines
       /\ SerializeTable[ds] = aiMessage.Choices[1]
       /\ \E i \in 1..Len(ds) : ds[i].case = "SET" /\ ds[i].field = City
       /\ \E i \in 1..Len(ds) : ds[i].case = "SAY"
       /\ Session.FormData[City] = <<"N", " ", "Y">>

(***************************************************************************)
(* C20.  A line of SET, a run of white space, a name, a run of white       *)
(* space and a value sets the field of that name to that value, and no     *)
(* field has the empty name.  The code cuts off "SET " and splits the rest *)
(* at its first space, so after SET and two spaces the name is empty and   *)
(* the value is the rest of the line, and this is violated.                *)
(***************************************************************************)
C20_SetSplitsAtWhiteSpaceRuns ==
  Answered =>
    \A i \in 1..Len(Directives) :
      Directives[i].case = "SET"
        => /\ CommandTable[aiMessage.Choices[1]][i] = Directives[i]
           /\ CommandTable[aiMessage.Choices[1]][i].field # <<>>
           /\ Directives[i].field \in DOMAIN Session.FormData

\* the replies with a line that is SAVE when the white space around it is
\* taken off
ExactSaveContents ==
  { content \in Contents \cup ParserContents :
      LET lines == Split(content, "\n") IN
      \E i \in 1..Len(lines) : TrimSpace(lines[i]) = SAVE }

\* the replies with a line that begins with SAVE in capitals or in small
\* letters and is not SAVE
NearSaveContents ==
  { content \in Contents \cup ParserContents :
      LET lines == Split(content, "\n") IN
      \E i \in 1..Len(lines) :
        /\ TrimSpace(lines[i]) # SAVE
        /\ \/ HasPrefix(TrimSpace(lines[i]), SAVE)
           \/ HasPrefix(TrimSpace(lines[i]), <<"s", "a", "v", "e">>) }

LabelAndName(rawLine) ==
  LET line == TrimSpace(rawLine)
      colon == IndexFrom(line, ":", 1)
      found == FindStringSubmatch(SubSeq(line, colon + 1, Len(line)))
  IN IF colon = 0 \/ found = <<>> THEN <<>>
     ELSE << [Label |-> TrimSpace(SubSeq(line, 1, colon - 1)),
              Name |-> found[2]] >>

\* the fields of the page just served, as labels and names
PageLabelsAndNames ==
  [i \in 1..Len(response.Fields) |->
     [Label |-> response.Fields[i].Label, Name |-> response.Fields[i].Name]]

(***************************************************************************)
(* C22.  Every line of <form_fields> with a label, a colon and a           *)
(* placeholder gives a field of the page with that label and that name,    *)
(* whatever follows the first colon.  parseFormFields splits a line at     *)
(* every colon and skips it unless that gives two parts, so a line with a  *)
(* colon in its example gives no field, and this is violated.              *)
(***************************************************************************)
C22_SplitAtFirstColon ==
  request.handler = "page" =>
    LET lines == Split(config[request.formName], "\n") IN
    \A i \in 1..Len(lines) :
      LabelAndName(lines[i]) # <<>>
        => \E k \in 1..Len(PageLabelsAndNames) :
             PageLabelsAndNames[k] = LabelAndName(lines[i])[1]

\* what parseFormFields returns for each line on its own, put together in
\* line order
RECURSIVE LineByLine(_)
LineByLine(lines) ==
  IF lines = <<>> THEN <<>>
  ELSE parseFormFields(Head(lines)) \o LineByLine(Tail(lines))

(***************************************************************************)
(* C23.  parseFormFields returns the fields of the lines it accepts in     *)
(* line order, each as it is returned for the line on its own; a line      *)
(* without a colon or without a placeholder gives nothing and changes      *)
(* nothing for the other lines, the page is served all the same; and the   *)
(* fields are the same when the same text is parsed again.                 *)
(***************************************************************************)
C23_FieldsInLineOrder ==
  [][ request'.handler = "page"
      => LET lines == Split(config'[request'.formName], "\n") IN
         /\ response'.Fields = LineByLine(lines)
         /\ \A i \in 1..Len(lines) :
              LabelAndName(lines[i]) = <<>> => parseFormFields(lines[i]) = <<>>
         /\ response'.status = 200 /\ response'.kind = "html"
         /\ request.handler = "page" => response'.Fields = response.Fields
     ]_vars

\* a page was served a second time, for a text of three lines of which the
\* second has no placeholder: the fields are those of the first and the
\* third line, with the example of the first
C23_Witness ==
  /\ request.handler = "page" /\ served = 2
  /\ Len(Split(config[request.formName], "\n")) = 3
  /\ LabelAndName(Split(config[request.formName], "\n")[2]) = <<>>
  /\ response.Fields =
       << [Label |-> License, Name |-> License, Example |-> <<"5">>],
          [Label |-> City, Name |-> City, Example |-> <<>>] >>

\* the field names of the parsed <form_fields> of a form
SchemaNames(formName) ==
  { parseFormFields(config[formName])[i].Name :
      i \in 1..Len(parseFormFields(config[formName])) }

(***************************************************************************)
(* C27.  A chat turn adds to the FormData of its session, and to the       *)
(* record it writes, only keys that are field names of the form, so that   *)
(* every key is one.  The code takes the field name of a SET line as it    *)
(* is, so a SET of a name that is not among the fields of the form adds an *)
(* entry, and this is violated.                                            *)
(***************************************************************************)
C27_OnlySchemaFieldsAreSet ==
  [][ Answered'
      => LET before == GetSession(request'.formName).FormData
             after == chatSessions'[request'.formName].FormData
         IN /\ (DOMAIN after \ DOMAIN before) \subseteq SchemaNames(request'.formName)
            /\ saving'.written
                 => (DOMAIN Record(files', saving'.filename) \ DOMAIN before)
                      \subseteq SchemaNames(request'.formName) ]_vars

\* sequence a is the beginning of sequence b
IsPrefix(a, b) == Len(a) <= Len(b) /\ SubSeq(b, 1, Len(a)) = a

(***************************************************************************)
(* C24.  The life of a session.  A session is created by a chat request    *)
(* for its form and by nothing else, and a chat request that handleChat    *)
(* decodes leaves a session for its form; a session once there stays, with *)
(* the fields it has, and its messages only grow at the end; the messages  *)
(* of every session begin with the system message of the form, and there   *)
(* is no other system message.  Two first requests of a form that both     *)
(* find no session both store one, and the second store resets the         *)
(* session of the form.                                                    *)
(***************************************************************************)
C24_SessionLifecycle ==
  [][ /\ \A f \in DOMAIN chatSessions :
           /\ f \in DOMAIN chatSessions'
           /\ IsPrefix(chatSessions[f].Messages, chatSessions'[f].Messages)
           /\ DOMAIN chatSessions[f].FormData
                \subseteq DOMAIN chatSessions'[f].FormData
      /\ \A f \in DOMAIN chatSessions' \ DOMAIN chatSessions :
           \/ request'.handler = "chat" /\ request'.formName = f
           \/ \E c \in DOMAIN inflight : inflight[c].formName = f
      /\ ( /\ request' # request
           /\ request'.handler = "chat"
           /\ response'.status \notin {400, 405} )
           => request'.formName \in DOMAIN chatSessions'
      /\ \A f \in DOMAIN chatSessions' :
           LET m == chatSessions'[f].Messages IN
           /\ m[1] = NewSession(f).Messages[1]
           /\ m[1].Role = "system"
           /\ \A i \in 2..Len(m) : m[i].Role # "system" ]_vars

(***************************************************************************)
(* C25.  The chat turns of a form are serialized: a turn that has appended *)
(* its user message returns before another request for the form gets at    *)
(* the session, so at no time have two requests for one form both appended *)
(* their user message and not returned.  handleChat takes no lock, and     *)
(* this is violated.                                                       *)
(***************************************************************************)
C25_TurnsOfAFormAreSerialized ==
  \A a, b \in DOMAIN inflight :
    ( /\ a # b
      /\ inflight[a].formName = inflight[b].formName
      /\ inflight[a].pc \in {"calling", "answered"} )
    => inflight[b].pc \notin {"calling", "answered"}

(***************************************************************************)
(* C26.  The call of the chat completions API is bounded in time: a chat   *)
(* turn that has appended its user message returns, with a response or     *)
(* with an error, whether the API answers or not.  The http.Client has no  *)
(* timeout, and this is violated when the API does not answer.             *)
(***************************************************************************)
C26_ChatTurnEnds ==
  \A c \in Clients :
    (c \in DOMAIN inflight /\ inflight[c].pc = "calling")
      ~> (c \notin DOMAIN inflight)

(***************************************************************************)
(* C28.  One session for each form, shared by all clients: every handler   *)
(* that has a session has the session that the map has for its form, and   *)
(* a field set in the turn of one client is in the record that the next    *)
(* turn on the form, of another client, saves.  Two first requests of a    *)
(* form both store a session, and the handler of the first keeps the       *)
(* session that the second has replaced, so this is violated.              *)
(***************************************************************************)
C28_OneSessionSharedByAllClients ==
  [][ /\ \A c \in DOMAIN inflight' :
           inflight'[c].pc # "create" => inflight'[c].own = <<>>
      /\ ( /\ Answered /\ Answered'
           /\ served' = served + 1
           /\ request'.formName = request.formName
           /\ request'.client # request.client
           /\ saving'.written )
           => DOMAIN response.updates
                \subseteq DOMAIN Record(files', saving'.filename) ]_vars

(***************************************************************************)
(* C29.  Loading never fails the form page: a page requested without a     *)
(* License, or with a License for which there is no file, is served as a   *)
(* page, with status 200, the fields of the form and empty InitialData.    *)
(***************************************************************************)
C29_LoadNeverFailsThePage ==
  [][ ( /\ request'.handler = "page"
        /\ \/ request'.License = <<>>
           \/ Filename(request'.License) \notin DOMAIN files )
      => /\ response'.kind = "html"
         /\ response'.status = 200
         /\ response'.InitialData = EmptyMap
         /\ \E form \in PageForms(request'.formName) :
              response'.Fields = parseFormFields(config[form])
         /\ files' = files /\ chatSessions' = chatSessions ]_vars

\* a page was requested without a License while there was a record in the
\* file of the empty License, and was served with empty InitialData
C29_Witness ==
  /\ request.handler = "page" /\ request.License = <<>>
  /\ Filename(<<>>) \in DOMAIN files
  /\ Record(files, Filename(<<>>)) # EmptyMap
  /\ response.kind = "html" /\ response.InitialData = EmptyMap

(***************************************************************************)
(* C30.  The response of a chat turn tells whether the turn saved: a turn  *)
(* that wrote its record and a turn that wrote nothing do not get the same *)
(* response.  The response has the message and the updates and nothing     *)
(* about the save, so this is violated.                                    *)
(***************************************************************************)
C30_ResponseTellsWhetherSaved ==
  [][ ( /\ Answered /\ Answered'
        /\ response.status = 200 /\ response'.status = 200
        /\ saving.written # saving'.written )
      => response' # response ]_vars

(***************************************************************************)
(* C31.  Concurrent first requests of a form make one session: a handler   *)
(* that has appended its user message and not returned has the session     *)
(* that the map has for its form, and its user message is among the        *)
(* messages of that session.  The look-up and the store of the session are *)
(* not one step, so a handler can append to a session that another         *)
(* handler then replaces in the map, and this is violated.                 *)
(***************************************************************************)
C31_FirstRequestsMakeOneSession ==
  \A c \in DOMAIN inflight :
    inflight[c].pc \in {"calling", "answered"}
      => /\ inflight[c].own = <<>>
         /\ LET m == chatSessions[inflight[c].formName].Messages IN
            \E i \in 1..Len(m) :
              /\ m[i].Role = "user"
              /\ m[i].Content = inflight[c].chatReq.Message

(***************************************************************************)
(* Auto-save requests.  A message is a well-formed SET when it begins with *)
(* "SET ", the field name follows at once, and a space follows the field   *)
(* name; the value is what comes after, without the white space around it  *)
(* (it may be empty).                                                      *)
(***************************************************************************)
WellFormedSet(message) ==
  /\ HasPrefix(message, SET_)
  /\ LET rest == TrimPrefix(message, SET_) IN
     /\ FirstWord(rest) # <<>>
     /\ Len(rest) > Len(FirstWord(rest))

\* the field and the value that a well-formed SET names
SetField(message) == FirstWord(TrimPrefix(message, SET_))

SetValue(message) == AfterFirstWord(TrimPrefix(message, SET_))

\* the step serves a chat request with autoSave set
AutoSaveRequested ==
  /\ served' = served + 1
  /\ request'.handler = "chat"
  /\ request'.AutoSave
  /\ response'.status \notin {400, 405}

(***************************************************************************)
(* C32.  An auto-save request with a well-formed SET changes the one entry *)
(* of FormData that it names and the record, and nothing else: the         *)
(* messages of the session and the other sessions are as before, the chat  *)
(* completions API is not called, no file but the record of the session is *)
(* touched, the record written is the FormData of the session, and the     *)
(* response has the updates with that one field.                           *)
(***************************************************************************)
C32_AutoSaveChangesOneField ==
  [][ (AutoSaveRequested /\ WellFormedSet(request'.Message))
      => LET f == request'.formName
             before == GetSession(f)
             after == chatSessions'[f]
             field == SetField(request'.Message)
             value == SetValue(request'.Message)
         IN /\ after.Messages = before.Messages
            /\ after.FormData = Put(before.FormData, field, value)
            /\ DOMAIN chatSessions' = DOMAIN chatSessions \cup {f}
            /\ \A g \in DOMAIN chatSessions \ {f} :
                 chatSessions'[g] = chatSessions[g]
            /\ ~aiMessage'.called
            /\ response'.kind = "json"
            /\ response'.keys = {"updates"}
            /\ response'.updates = Put(EmptyMap, field, value)
            /\ saving'.filename = Filename(Get(after.FormData, License))
            /\ DOMAIN files \subseteq DOMAIN files'
            /\ \A n \in DOMAIN files' \ {saving'.filename} :
                 n \in DOMAIN files /\ files'[n] = files[n]
            /\ saving'.written
                 => Record(files', saving'.filename) = after.FormData ]_vars

\* an auto-save has set one field of a session that had a message from a
\* user and another field, and has written the record
C32_Witness ==
  /\ request.handler = "chat" /\ request.AutoSave
  /\ WellFormedSet(request.Message)
  /\ saving.written
  /\ ~aiMessage.called
  /\ Len(Session.Messages) >= 2
  /\ Cardinality(DOMAIN Session.FormData) >= 2
  /\ Record(files, saving.filename) = Session.FormData

(***************************************************************************)
(* C33.  An auto-save request that fails to write its record answers with  *)
(* an error and not with the updates.  The errors of os.MkdirAll and       *)
(* os.WriteFile are dropped in the auto-save branch, so this is violated.  *)
(***************************************************************************)
C33_AutoSaveReportsWriteError ==
  [][ ( /\ AutoSaveRequested /\ WellFormedSet(request'.Message)
        /\ ~saving'.written )
      => /\ response'.status >= 400
         /\ "updates" \notin response'.keys ]_vars

ChatServed == served' = served + 1 /\ turn'.status # 400

\* the message is a system message of the form type: the system prompt of
\* the form type, or the message that handleChat writes for a language
IsSystemMessageOf(message, formType) ==
  /\ message.Role = "system"
  /\ \/ message.Content = getSystemPrompt(formType)
     \/ \E lang \in {"en", "es"}, fails \in BOOLEAN :
          message =
            SystemMsg(translateFormTemplate(getFormTemplate(formType), lang,
                                            fails).text, lang)

\* the completion phrases
CompletionPhrases ==
  { <<"f", "o", "r", "m", " ", "i", "s", " ", "c", "o", "m", "p", "l", "e", "t", "e">>,
    <<"f", "o", "r", "m", " ", "c", "o", "m", "p", "l", "e", "t", "e">>,
    <<"f", "o", "r", "m", "u", "l", "a", "r", "i", "o", " ", "c", "o", "m", "p", "l", "e", "t", "o">>,
    <<"f", "o", "r", "m", "u", "l", "a", "i", "r", "e", " ", "c", "o", "m", "p", "l", "e", "t">>,
    FormCompleteChinese }

\* the same letter, in whatever case
SameLetter(a, b) ==
  \/ a = b
  \/ a \in DOMAIN Lower /\ Lower[a] = b
  \/ b \in DOMAIN Lower /\ Lower[b] = a

\* the reply contains a completion phrase, in whatever case
HasCompletionPhrase(reply) ==
  \E p \in CompletionPhrases :
    \E i \in 1..Len(reply) :
      /\ i + Len(p) - 1 <= Len(reply)
      /\ \A j \in 1..Len(p) : SameLetter(reply[i + j - 1], p[j])

\* HasCompletionPhrase, tabulated for the replies of the model
CompletionTable == [r \in BotResponses |-> HasCompletionPhrase(r)]

\* a history without the system message at its head
WithoutSystem(messages) ==
  IF messages # <<>> /\ messages[1].Role = "system" THEN Tail(messages)
  ELSE messages

(***************************************************************************)
(* C35.  Every chat completion request of a turn carries a history whose   *)
(* first message is the system message of the form, and which has no       *)
(* other system message.  handleChat writes a system message only when the *)
(* language detected is not the language of the conversation, which starts *)
(* as "en", and getSystemPrompt is not called: a conversation in English   *)
(* has no system message, and this is violated.                            *)
(***************************************************************************)
C35_HistoryBeginsWithSystemMessage ==
  turn.sent # <<>>
    => /\ IsSystemMessageOf(turn.sent[1], turn.formType)
       /\ \A i \in 2..Len(turn.sent) : turn.sent[i].Role # "system"

(***************************************************************************)
(* C36.  A conversation is removed from conversations only after its form  *)
(* has been saved: when saveForm returns an error on a completed form, the *)
(* conversation is kept, with the messages of the turn.  handleChat logs   *)
(* the error and deletes the conversation, so this is violated.            *)
(***************************************************************************)
C36_ConversationKeptWhenSaveFails ==
  [][ (ChatServed /\ turn'.complete /\ turn'.saveErr # "none")
      => /\ turn'.formType \in DOMAIN conversations'
         /\ conversations'[turn'.formType].Messages =
              Append(turn'.sent,
                     [Role |-> "assistant", Content |-> turn'.reply]) ]_vars

(***************************************************************************)
(* C37.  The conversation of a form is removed exactly when the reply of   *)
(* the assistant contains a completion phrase.  A chat request for a form  *)
(* without a conversation starts from an empty history in the language     *)
(* "en": what it sends has, before the user message, at most the system    *)
(* message of a language that is not "en".  A turn that gets a reply       *)
(* without a completion phrase leaves the history it found (the system     *)
(* message apart), then its user message, then the reply.  The             *)
(* conversations of the other form types are left alone.                   *)
(***************************************************************************)
C37_ConversationEndsAtCompletion ==
  [][ ChatServed
      => LET f == turn'.formType
             before == GetConversation(f)
             sent == turn'.sent
             last == [Role |-> "user", Content |-> turn'.Message]
             phrase == ~turn'.err /\ CompletionTable[turn'.reply]
         IN /\ (f \notin DOMAIN conversations') <=> phrase
            /\ \A g \in FormTypes \ {f} :
                 /\ g \in DOMAIN conversations' <=> g \in DOMAIN conversations
                 /\ g \in DOMAIN conversations
                      => conversations'[g] = conversations[g]
            /\ sent[Len(sent)] = last
            /\ WithoutSystem(sent) = Append(WithoutSystem(before.Messages), last)
            /\ f \notin DOMAIN conversations
                 => /\ Len(sent) <= 2
                    /\ Len(sent) = 2
                         => /\ sent[1].Role = "system"
                            /\ sent[1].Content[3] # "en"
            /\ (~turn'.err /\ ~phrase)
                 => conversations'[f].Messages =
                      Append(sent, [Role |-> "assistant",
                                    Content |-> turn'.reply])
            /\ turn'.err => conversations'[f].Messages = sent ]_vars

\* the form of a form type has been completed and saved, and the next chat
\* request for the form type has started a new conversation
C37_Witness ==
  /\ served = MaxChats
  /\ turn.status = 200 /\ ~turn.complete
  /\ turn.formType \in DOMAIN conversations
  /\ Len(conversations[turn.formType].Messages) = 2
  /\ conversations[turn.formType].Language = "en"
  /\ \E n \in DOMAIN files : files[n].form = turn.formType

====
